---- MODULE Spec2Model ----
(***************************************************************************)
(* A model of scripts/dts/dtlib.py: the device tree that DT.__init__       *)
(* builds from a .dts file (the statements of _parse_dt and _parse_node    *)
(* acting on Node and Property objects), the five post-processing passes   *)
(* (_register_phandles, _fixup_props, _register_aliases,                   *)
(* _remove_unreferenced, _register_labels) and the /include/ stack of the  *)
(* lexer (_enter_file, _leave_file, _open).                                *)
(*                                                                         *)
(* Python strings are TLA+ strings; where the code looks inside a string   *)
(* (s[0] == "{", str.encode, str.split, a regular expression) the model    *)
(* uses its characters, Chars[s], a sequence of character codes.  Bytes    *)
(* values are sequences of numbers 0..255.  Node objects live in `heap`,   *)
(* a sequence indexed by object identity; None is 0.                       *)
(***************************************************************************)
EXTENDS Integers, Sequences, FiniteSets, TLC

VARIABLES
    pc,                 \* where DT.__init__ is: header, parse, the passes, done, error
    err,                \* the exception that escaped DT.__init__ ("none" if none) and
                        \* the step of DT.__init__ it escaped from
    root,               \* DT.root (None before the first '/ { ... };')
    heap,               \* the Node objects created so far
    stack,              \* the active _parse_node() calls, innermost last
    alias2node,         \* DT.alias2node
    phandle2node,       \* DT.phandle2node
    label2node,         \* DT.label2node
    label2prop,         \* DT.label2prop
    label2prop_offset,  \* DT.label2prop_offset
    is_parsing,         \* DT._is_parsing
    filename,           \* DT.filename
    file_contents,      \* DT._file_contents (the file being lexed)
    tok_end_i,          \* DT._tok_end_i
    lineno,             \* DT._lineno
    filestack,          \* DT._filestack
    rootfile,           \* the 'filename' argument of DT.__init__
    include_path,       \* DT._include_path
    files,              \* the files open() finds, by path
    lexer_state,        \* DT._lexer_state
    returned            \* the tokens _next_token has returned, in order

treevars == <<pc, err, root, heap, stack, alias2node, phandle2node,
              label2node, label2prop, label2prop_offset, is_parsing>>
lexvars == <<filename, file_contents, tok_end_i, lineno, filestack, rootfile,
             include_path, files,
        lexer_state, returned>>
vars == <<pc, err, root, heap, stack, alias2node, phandle2node,
          label2node, label2prop, label2prop_offset, is_parsing,
          filename, file_contents, tok_end_i, lineno, filestack, rootfile,
          include_path, files,
        lexer_state, returned>>

(***************************************************************************)
(* Bounds of the model.                                                    *)
(***************************************************************************)
\* Node objects the parser may create (the root included)
MaxNodes == 3
\* Property objects the parser may create
MaxProps == 2
\* /include/ frames the lexer may push before the model stops following it
MaxIncludeDepth == 3

None == 0

(***************************************************************************)
(* Strings.                                                                *)
(***************************************************************************)
\* The characters of every string the model's inputs use (str.encode("utf-8"),
\* all of them ASCII).
Chars ==
    ("" :> <<>>) @@
    ("/" :> <<47>>) @@
    ("a" :> <<97>>) @@
    ("c" :> <<99>>) @@
    ("l" :> <<108>>) @@
    ("m" :> <<109>>) @@
    ("x" :> <<120>>) @@
    ("y" :> <<121>>) @@
    ("X" :> <<88>>) @@
    ("aliases" :> <<97, 108, 105, 97, 115, 101, 115>>) @@
    ("phandle" :> <<112, 104, 97, 110, 100, 108, 101>>) @@
    ("{/}" :> <<123, 47, 125>>) @@
    ("{a}" :> <<123, 97, 125>>) @@
    ("{/a}" :> <<123, 47, 97, 125>>) @@
    ("{/a/c}" :> <<123, 47, 97, 47, 99, 125>>) @@
    ("{/c}" :> <<123, 47, 99, 125>>) @@
    ("/a" :> <<47, 97>>) @@
    ("/c" :> <<47, 99>>) @@
    ("/a/c" :> <<47, 97, 47, 99>>) @@
    ("d" :> <<100>>) @@
    ("a.dts" :> <<97, 46, 100, 116, 115>>) @@
    ("b.dts" :> <<98, 46, 100, 116, 115>>) @@
    ("d/a.dts" :> <<100, 47, 97, 46, 100, 116, 115>>) @@
    ("d/b.dts" :> <<100, 47, 98, 46, 100, 116, 115>>) @@
    ("d/x.dts" :> <<100, 47, 120, 46, 100, 116, 115>>) @@
    ("12" :> <<49, 50>>) @@
    ("$" :> <<36>>) @@
    ("=" :> <<61>>) @@
    (";" :> <<59>>) @@
    ("," :> <<44>>) @@
    ("<" :> <<60>>) @@
    (">" :> <<62>>) @@
    ("[" :> <<91>>) @@
    ("]" :> <<93>>) @@
    ("{" :> <<123>>) @@
    ("}" :> <<125>>) @@
    ("(" :> <<40>>) @@
    (")" :> <<41>>) @@
    ("+" :> <<43>>) @@
    ("-" :> <<45>>) @@
    ("<<" :> <<60, 60>>) @@
    ("m:" :> <<109, 58>>) @@
    ("&l" :> <<38, 108>>) @@
    ("/bits/" :> <<47, 98, 105, 116, 115, 47>>) @@
    ("/delete-node/" :> <<47, 100, 101, 108, 101, 116, 101, 45, 110, 111, 100, 101, 47>>) @@
    ("\\x61.dts" :> <<92, 120, 54, 49, 46, 100, 116, 115>>) @@
    ("\\377.dts" :> <<92, 51, 55, 55, 46, 100, 116, 115>>)

\* "/".join(parts) on sequences of characters, sep the separator's code
RECURSIVE Join(_, _)
Join(parts, sep) ==
    IF Len(parts) = 0 THEN <<>>
    ELSE IF Len(parts) = 1 THEN parts[1]
    ELSE parts[1] \o <<sep>> \o Join(Tail(parts), sep)

\* str.split(sep): the pieces between the separators, empty ones kept
RECURSIVE Split(_, _)
Split(s, sep) ==
    IF \A i \in 1..Len(s) : s[i] # sep THEN <<s>>
    ELSE LET i == CHOOSE j \in 1..Len(s) :
                      s[j] = sep /\ \A k \in 1..(j - 1) : s[k] # sep
         IN <<SubSeq(s, 1, i - 1)>> \o Split(SubSeq(s, i + 1, Len(s)), sep)

\* s.count(c)
Count(s, c) == Cardinality({i \in 1..Len(s) : s[i] = c})

\* elm in lst
In(elm, lst) == \E i \in 1..Len(lst) : lst[i] = elm

\* int.to_bytes(4, "big") of a number that fits
U32Bytes(n) ==
    << (n \div 16777216) % 256, (n \div 65536) % 256, (n \div 256) % 256, n % 256 >>

\* int.from_bytes(b, "big")
RECURSIVE FromBytes(_)
FromBytes(b) ==
    IF Len(b) = 0 THEN 0
    ELSE 256 * FromBytes(SubSeq(b, 1, Len(b) - 1)) + b[Len(b)]

\* Python's slice b[i:j] for 0 <= i, with j clipped to len(b)
Slice(b, i, j) == SubSeq(b, i + 1, IF j > Len(b) THEN Len(b) ELSE j)

(***************************************************************************)
(* Markers in property values, and the inferred property types.            *)
(***************************************************************************)
_REF_PATH == 0
_REF_PHANDLE == 1
_REF_LABEL == 2
_TYPE_UINT8 == 3
_TYPE_UINT16 == 4
_TYPE_UINT32 == 5
_TYPE_UINT64 == 6
_TYPE_STRING == 7

TYPE_EMPTY == 0
TYPE_BYTES == 1
TYPE_NUM == 2
TYPE_NUMS == 3
TYPE_STRING == 4
TYPE_STRINGS == 5
TYPE_PATH == 6
TYPE_PHANDLE == 7
TYPE_COMPOUND == 8

\* _N_BYTES_TO_TYPE[n_bytes]
_N_BYTES_TO_TYPE(n_bytes) ==
    CASE n_bytes = 1 -> _TYPE_UINT8
      [] n_bytes = 2 -> _TYPE_UINT16
      [] n_bytes = 4 -> _TYPE_UINT32
      [] n_bytes = 8 -> _TYPE_UINT64

(***************************************************************************)
(* Node and Property objects.                                              *)
(***************************************************************************)
\* Node.__init__
NewNode(name, parent) ==
    [name |-> name, parent |-> parent, props |-> <<>>, nodes |-> <<>>,
     labels |-> <<>>, omit_if_no_ref |-> FALSE, is_referenced |-> FALSE]

\* Property.__init__ (the '@' check is made by its caller in the model)
NewProperty(name) ==
    [name |-> name, value |-> <<>>, labels |-> <<>>, offset_labels |-> <<>>,
     markers |-> <<>>]

\* A heap slot whose Node is garbage: nothing refers to the object any more
Freed == NewNode("", None)

\* Where the next Node object goes: a slot of a garbage object, else a new slot
Alloc(h) ==
    IF \E i \in 1..Len(h) : h[i] = Freed
    THEN CHOOSE i \in 1..Len(h) : h[i] = Freed /\ \A j \in 1..(i - 1) : h[j] # Freed
    ELSE Len(h) + 1

\* The heap with the object node in slot i
Put(h, i, node) == IF i > Len(h) THEN Append(h, node) ELSE [h EXCEPT ![i] = node]

\* The number of Node objects, and of Property objects in the nodes' props
NodeCount(h) == Cardinality({i \in 1..Len(h) : h[i] # Freed})
RECURSIVE PropCount(_)
PropCount(h) == IF Len(h) = 0 THEN 0 ELSE Len(Head(h).props) + PropCount(Tail(h))

\* A marker [offset, type, data] of Property._markers; data is "" for None
Marker(pos, type, ref) == [pos |-> pos, type |-> type, ref |-> ref]

\* Property._add_marker
_add_marker(prop, marker_type, data) ==
    [prop EXCEPT
        !.markers = Append(@, Marker(Len(prop.value), marker_type, data)),
        !.value = IF marker_type = _REF_PHANDLE THEN @ \o <<0, 0, 0, 0>> ELSE @]

\* _append_no_dup
_append_no_dup(lst, elm) == IF In(elm, lst) THEN lst ELSE Append(lst, elm)

\* _append_no_dup for each element of elms in turn
RECURSIVE _append_all_no_dup(_, _)
_append_all_no_dup(lst, elms) ==
    IF Len(elms) = 0 THEN lst
    ELSE _append_all_no_dup(_append_no_dup(lst, Head(elms)), Tail(elms))

\* The index of the property called name in the ordered dict props, 0 if absent
PropIndex(props, name) ==
    IF \E i \in 1..Len(props) : props[i].name = name
    THEN CHOOSE i \in 1..Len(props) : props[i].name = name
    ELSE 0

\* name in node.props
HasProp(h, n, name) == PropIndex(h[n].props, name) # 0

\* node.props[name]
GetProp(h, n, name) == h[n].props[PropIndex(h[n].props, name)]

\* node.props[name] = prop: an existing key keeps its place, a new one goes last
SetProp(h, n, prop) ==
    LET i == PropIndex(h[n].props, prop.name)
    IN IF i = 0 THEN [h EXCEPT ![n].props = Append(@, prop)]
       ELSE [h EXCEPT ![n].props[i] = prop]

\* The child of node n called name (node.nodes.get(name)), None if absent
Child(h, n, name) ==
    IF \E i \in 1..Len(h[n].nodes) : h[h[n].nodes[i]].name = name
    THEN LET i == CHOOSE j \in 1..Len(h[n].nodes) : h[h[n].nodes[j]].name = name
         IN h[n].nodes[i]
    ELSE None

\* The child of node n whose encoded name is component (a component of a path
\* looked up in node.nodes), None if absent
ChildByChars(h, n, component) ==
    IF \E i \in 1..Len(h[n].nodes) : Chars[h[h[n].nodes[i]].name] = component
    THEN LET i == CHOOSE j \in 1..Len(h[n].nodes) :
                      Chars[h[h[n].nodes[j]].name] = component
         IN h[n].nodes[i]
    ELSE None

\* seq without its elements equal to x
RECURSIVE Without(_, _)
Without(seq, x) ==
    IF Len(seq) = 0 THEN <<>>
    ELSE IF Head(seq) = x THEN Without(Tail(seq), x)
    ELSE <<Head(seq)>> \o Without(Tail(seq), x)

\* Node.node_iter: the node, then its children's subtrees in insertion order
RECURSIVE node_iter(_, _)
RECURSIVE nodes_iter(_, _)
node_iter(h, n) == <<n>> \o nodes_iter(h, h[n].nodes)
nodes_iter(h, children) ==
    IF Len(children) = 0 THEN <<>>
    ELSE node_iter(h, Head(children)) \o nodes_iter(h, Tail(children))

\* The heap once the objects of the sequence nodes have become garbage
RECURSIVE Release(_, _)
Release(h, nodes) ==
    IF Len(nodes) = 0 THEN h
    ELSE Release([h EXCEPT ![Head(nodes)] = Freed], Tail(nodes))

\* The names from below the root down to node n (Node.path's node_names, reversed)
RECURSIVE node_names(_, _)
node_names(h, n) ==
    IF h[n].parent = None THEN <<>>
    ELSE node_names(h, h[n].parent) \o <<Chars[h[n].name]>>

\* Node.path, encoded
path(h, n) == <<47>> \o Join(node_names(h, n), 47)

\* The result of a call that returns a node or raises: exc is "none" or the
\* exception's class
Ret(node) == [exc |-> "none", node |-> node]
Raise(exc) == [exc |-> exc, node |-> None]

\* A walk that takes an empty component for a child that does not exist
RECURSIVE walk_every_component(_, _, _)
walk_every_component(h, cur, components) ==
    IF Len(components) = 0 THEN Ret(cur)
    ELSE IF cur = None THEN Raise("AttributeError")
    ELSE IF ChildByChars(h, cur, Head(components)) = None THEN Raise("DTError")
    ELSE walk_every_component(h, ChildByChars(h, cur, Head(components)), Tail(components))

\* The loop of DT.get_node over the path's components, from node cur
RECURSIVE walk(_, _, _)
walk(h, cur, components) ==
    IF Len(components) = 0 THEN Ret(cur)
    ELSE IF Len(Head(components)) = 0 THEN walk(h, cur, Tail(components))
    ELSE IF cur = None THEN Raise("AttributeError")
    ELSE IF ChildByChars(h, cur, Head(components)) = None THEN Raise("DTError")
    ELSE walk(h, ChildByChars(h, cur, Head(components)), Tail(components))

\* The alias whose encoded name is the first component of a path, "" if none
AliasByChars(a2n, component) ==
    IF \E a \in DOMAIN a2n : Chars[a] = component
    THEN CHOOSE a \in DOMAIN a2n : Chars[a] = component
    ELSE ""

\* DT.get_node(path), path encoded; r is DT.root and a2n DT.alias2node
get_node(h, r, a2n, p) ==
    IF Len(p) > 0 /\ p[1] = 47
    THEN walk(h, r, Split(p, 47))
    ELSE LET parts == Split(p, 47)
             alias == AliasByChars(a2n, Head(parts))
         IN IF alias = "" THEN Raise("DTError")
            ELSE walk(h, a2n[alias], Tail(parts))

\* DT.has_node(path): val is what it returns, exc an exception other than
\* DTError that get_node raised
has_node(h, r, a2n, p) ==
    [exc |-> IF get_node(h, r, a2n, p).exc = "DTError" THEN "none"
             ELSE get_node(h, r, a2n, p).exc,
     val |-> get_node(h, r, a2n, p).exc = "none"]

\* The first node of nodes (a sequence) that has label s, None if there is none
RECURSIVE FirstWithLabel(_, _, _)
FirstWithLabel(h, nodes, s) ==
    IF Len(nodes) = 0 THEN None
    ELSE IF In(s, h[Head(nodes)].labels) THEN Head(nodes)
    ELSE FirstWithLabel(h, Tail(nodes), s)

\* DT._ref2node
_ref2node(h, r, a2n, s) ==
    IF Chars[s][1] = 123
    THEN get_node(h, r, a2n, SubSeq(Chars[s], 2, Len(Chars[s]) - 1))
    ELSE IF r = None THEN Raise("AttributeError")
    ELSE IF FirstWithLabel(h, node_iter(h, r), s) = None THEN Raise("DTError")
    ELSE Ret(FirstWithLabel(h, node_iter(h, r), s))

\* types_of with the _REF_LABEL markers left in
types_with_labels(markers) == [i \in 1..Len(markers) |-> markers[i].type]

\* The marker types of a property with the _REF_LABEL markers filtered out
RECURSIVE types_of(_)
types_of(markers) ==
    IF Len(markers) = 0 THEN <<>>
    ELSE IF Head(markers).type = _REF_LABEL THEN types_of(Tail(markers))
    ELSE <<Head(markers).type>> \o types_of(Tail(markers))

\* Property.type
type(prop) ==
    LET types == types_of(prop.markers)
        set == {types[i] : i \in 1..Len(types)}
    IN IF Len(types) = 0 THEN TYPE_EMPTY
       ELSE IF types = <<_TYPE_UINT8>> THEN TYPE_BYTES
       ELSE IF types = <<_TYPE_UINT32>>
            THEN (IF Len(prop.value) = 4 THEN TYPE_NUM ELSE TYPE_NUMS)
       ELSE IF set = {_TYPE_UINT32} THEN TYPE_NUMS
       ELSE IF set = {_TYPE_STRING}
            THEN (IF Len(types) = 1 THEN TYPE_STRING ELSE TYPE_STRINGS)
       ELSE IF types = <<_REF_PATH>> THEN TYPE_PATH
       ELSE IF types = <<_TYPE_UINT32, _REF_PHANDLE>> /\ Len(prop.value) = 4
            THEN TYPE_PHANDLE
       ELSE TYPE_COMPOUND

(***************************************************************************)
(* Tokens.  A token is the lexer's _Token(id, val); val is a string for    *)
(* every token but numbers, character literals and bytes, whose value is   *)
(* in n (val is then "", which equals no string the parser compares with). *)
(***************************************************************************)
_T_INCLUDE == 1
_T_LINE == 2
_T_STRING == 3
_T_DTS_V1 == 4
_T_PLUGIN == 5
_T_MEMRESERVE == 6
_T_BITS == 7
_T_DEL_PROP == 8
_T_DEL_NODE == 9
_T_OMIT_IF_NO_REF == 10
_T_LABEL == 11
_T_CHAR_LITERAL == 12
_T_REF == 13
_T_INCBIN == 14
_T_SKIP == 15
_T_EOF == 16
_T_NUM == 17
_T_PROPNODENAME == 18
_T_MISC == 19
_T_BYTE == 20
_T_BAD == 21

\* The lexer states
_DEFAULT == 0
_EXPECT_PROPNODENAME == 1
_EXPECT_BYTE == 2

_Token(id, val) == [id |-> id, val |-> val, n |-> 0]
NumToken(id, n) == [id |-> id, val |-> "", n |-> n]

\* What _next_token returns once the tokens of a statement have run out: the
\* model's statements are complete, so the parser only reads it after an error
EofToken == _Token(_T_EOF, "<EOF>")

\* _peek_token and the tokens left after _next_token, on a token sequence.
\* A _T_BAD token stays: _next_token returns it without moving on.
Peek(toks) == IF Len(toks) = 0 THEN EofToken ELSE Head(toks)
Next1(toks) ==
    IF Len(toks) = 0 THEN <<>>
    ELSE IF Head(toks).id = _T_BAD THEN toks
    ELSE Tail(toks)

\* The tokens of the kinds the statements are made of
Misc(val) == _Token(_T_MISC, val)
Label(val) == _Token(_T_LABEL, val)
Ref(val) == _Token(_T_REF, val)
Num(n) == NumToken(_T_NUM, n)
Byte(n) == NumToken(_T_BYTE, n)

(***************************************************************************)
(* Property assignment.  Each operator takes the tokens not yet read and   *)
(* returns what is left of them in rest, with exc = "DTError" where the    *)
(* code calls _parse_error.                                                *)
(***************************************************************************)
PropResult(exc, prop, rest) == [exc |-> exc, prop |-> prop, rest |-> rest]

\* 256 ** n_bytes is beyond TLC's integers for n_bytes >= 4, where
\* every number it can hold fits
FitsUnsigned(num, n_bytes) ==
    /\ num >= 0
    /\ n_bytes = 1 => num < 256
    /\ n_bytes = 2 => num < 65536

FitsSigned(num, n_bytes) ==
    /\ n_bytes = 1 => (num >= -128 /\ num < 128)
    /\ n_bytes = 2 => (num >= -32768 /\ num < 32768)

\* The n_bytes big-endian base-256 digits of num >= 0
RECURSIVE Digits(_, _)
Digits(num, n_bytes) ==
    IF n_bytes = 0 THEN <<>>
    ELSE Digits(num \div 256, n_bytes - 1) \o <<num % 256>>

\* ToBytes without the second try, with signed=True
ToBytesUnsigned(num, n_bytes) ==
    IF FitsUnsigned(num, n_bytes)
    THEN [ok |-> TRUE, bytes |-> Digits(num, n_bytes)]
    ELSE [ok |-> FALSE, bytes |-> <<>>]

\* num.to_bytes(n_bytes, "big"), then with signed=True after an OverflowError,
\* as _parse_cells tries them; ok is FALSE when both raise OverflowError
ToBytes(num, n_bytes) ==
    IF FitsUnsigned(num, n_bytes)
    THEN [ok |-> TRUE, bytes |-> Digits(num, n_bytes)]
    ELSE IF FitsSigned(num, n_bytes)
    THEN [ok |-> TRUE,
          bytes |-> IF num >= 0 THEN Digits(num, n_bytes)
                    ELSE LET d == Digits(-num - 1, n_bytes)
                         IN [i \in 1..n_bytes |-> 255 - d[i]]]
    ELSE [ok |-> FALSE, bytes |-> <<>>]

\* The escape after a backslash, as _unescape_re matches it at b[i]: its
\* length (1 to 3 octal digits, x and 1 or 2 hex digits, or any one character
\* but a newline; 0 is no match) and sub()'s byte for it (over 255 for an
\* octal escape out of range)
IsOct(c) == c \in 48..55
IsHex(c) == c \in (48..57) \cup (65..70) \cup (97..102)
HexVal(c) == IF c \in 48..57 THEN c - 48 ELSE IF c \in 65..70 THEN c - 55 ELSE c - 87

OctLen(b, i) ==
    IF i + 1 <= Len(b) /\ IsOct(b[i + 1])
    THEN (IF i + 2 <= Len(b) /\ IsOct(b[i + 2]) THEN 3 ELSE 2)
    ELSE 1

HexLen(b, i) == IF i + 2 <= Len(b) /\ IsHex(b[i + 2]) THEN 3 ELSE 2

RECURSIVE IntOf(_, _, _, _)
IntOf(b, i, n, base) ==
    IF n = 0 THEN 0
    ELSE IntOf(b, i, n - 1, base) * base + HexVal(b[i + n - 1])

EscLen(b, i) ==
    IF i > Len(b) \/ b[i] = 10 THEN 0
    ELSE IF IsOct(b[i]) THEN OctLen(b, i)
    ELSE IF b[i] = 120 /\ i + 1 <= Len(b) /\ IsHex(b[i + 1]) THEN HexLen(b, i)
    ELSE 1

sub(b, i, n) ==
    IF IsOct(b[i]) THEN IntOf(b, i, n, 8)
    ELSE IF b[i] = 120 /\ n > 1 THEN IntOf(b, i + 1, n - 1, 16)
    ELSE IF b[i] = 97 THEN 7
    ELSE IF b[i] = 98 THEN 8
    ELSE IF b[i] = 116 THEN 9
    ELSE IF b[i] = 110 THEN 10
    ELSE IF b[i] = 118 THEN 11
    ELSE IF b[i] = 102 THEN 12
    ELSE IF b[i] = 114 THEN 13
    ELSE b[i]

\* DT._unescape on the bytes b: exc is "DTError" for an octal escape over 255
RECURSIVE unescape_from(_, _, _)
RECURSIVE unescape_esc(_, _, _, _)
unescape_from(b, i, out) ==
    IF i > Len(b) THEN [exc |-> "none", val |-> out]
    ELSE IF b[i] = 92 /\ EscLen(b, i + 1) > 0
    THEN unescape_esc(b, i + 1, EscLen(b, i + 1), out)
    ELSE unescape_from(b, i + 1, Append(out, b[i]))

unescape_esc(b, i, n, out) ==
    IF sub(b, i, n) > 255 THEN [exc |-> "DTError", val |-> <<>>]
    ELSE unescape_from(b, i + n, Append(out, sub(b, i, n)))

_unescape(b) == unescape_from(b, 1, <<>>)

(***************************************************************************)
(* Serialization.  The text of __str__ is given as the tokens the lexer    *)
(* makes of it: a number through its digits, a string through its escaped  *)
(* characters.  exc is the class of the exception raised, "none" if the    *)
(* text is returned.                                                       *)
(***************************************************************************)
\* The length of the UTF-8 sequence that starts at b[i], 0 if there is none
IsCont(b, i, lo, hi) == i <= Len(b) /\ b[i] >= lo /\ b[i] <= hi
Utf8Len(b, i) ==
    IF b[i] < 128 THEN 1
    ELSE IF b[i] \in 194..223
    THEN (IF IsCont(b, i + 1, 128, 191) THEN 2 ELSE 0)
    ELSE IF b[i] \in 224..239
    THEN (IF /\ IsCont(b, i + 1, IF b[i] = 224 THEN 160 ELSE 128,
                                 IF b[i] = 237 THEN 159 ELSE 191)
             /\ IsCont(b, i + 2, 128, 191)
          THEN 3 ELSE 0)
    ELSE IF b[i] \in 240..244
    THEN (IF /\ IsCont(b, i + 1, IF b[i] = 240 THEN 144 ELSE 128,
                                 IF b[i] = 244 THEN 143 ELSE 191)
             /\ IsCont(b, i + 2, 128, 191)
             /\ IsCont(b, i + 3, 128, 191)
          THEN 4 ELSE 0)
    ELSE 0

\* bytes.decode("utf-8") succeeds on b from its i-th byte on
RECURSIVE ValidUtf8(_, _)
ValidUtf8(b, i) ==
    IF i > Len(b) THEN TRUE
    ELSE Utf8Len(b, i) > 0 /\ ValidUtf8(b, i + Utf8Len(b, i))

\* The digit d of a number in base 16, in lower and in upper case
HexDigit(d) == IF d < 10 THEN 48 + d ELSE 87 + d
HexDigitUpper(d) == IF d < 10 THEN 48 + d ELSE 55 + d

\* _escape_table: what str.translate puts for the character c
EscapeOf(c) ==
    IF c = 92 THEN <<92, 92>>
    ELSE IF c = 34 THEN <<92, 34>>
    ELSE IF c = 7 THEN <<92, 97>>
    ELSE IF c = 8 THEN <<92, 98>>
    ELSE IF c = 9 THEN <<92, 116>>
    ELSE IF c = 10 THEN <<92, 110>>
    ELSE IF c = 11 THEN <<92, 118>>
    ELSE IF c = 12 THEN <<92, 102>>
    ELSE IF c = 13 THEN <<92, 114>>
    ELSE <<c>>

\* _decode_and_escape(b): the characters of the text, encoded; a byte that is
\* not part of a UTF-8 sequence comes out as \xhh
RECURSIVE decode_and_escape_from(_, _, _)
decode_and_escape_from(b, i, out) ==
    IF i > Len(b) THEN out
    ELSE IF b[i] < 128
    THEN decode_and_escape_from(b, i + 1, out \o EscapeOf(b[i]))
    ELSE IF Utf8Len(b, i) > 0
    THEN decode_and_escape_from(b, i + Utf8Len(b, i),
                                out \o SubSeq(b, i, i + Utf8Len(b, i) - 1))
    ELSE decode_and_escape_from(b, i + 1,
             out \o <<92, 120, HexDigit(b[i] \div 16), HexDigit(b[i] % 16)>>)
_decode_and_escape(b) == decode_and_escape_from(b, 1, <<>>)

\* The string whose characters are text
StringOf(text) == CHOOSE str \in DOMAIN Chars : Chars[str] = text

\* hex(num) and "{:02X}".format(num)
RECURSIVE HexDigits(_)
HexDigits(num) ==
    IF num < 16 THEN <<HexDigit(num)>>
    ELSE HexDigits(num \div 16) \o <<HexDigit(num % 16)>>
hex(num) == <<48, 120>> \o HexDigits(num)
Format02X(num) ==
    IF num < 16 THEN <<48, HexDigitUpper(num)>>
    ELSE <<HexDigitUpper(num \div 16), HexDigitUpper(num % 16)>>

\* The token of an element of an array in the text: a number or a byte
NumberText(num, elm_size) ==
    IF elm_size = 1 THEN Byte(IntOf(Format02X(num), 1, 2, 16))
    ELSE Num(IntOf(hex(num), 3, Len(hex(num)) - 2, 16))

\* _N_BYTES_TO_START_STR and _N_BYTES_TO_END_STR
_N_BYTES_TO_START_STR(elm_size) ==
    IF elm_size = 1 THEN <<Misc("[")>>
    ELSE IF elm_size = 2 THEN <<_Token(_T_BITS, "/bits/"), Num(16), Misc("<")>>
    ELSE IF elm_size = 4 THEN <<Misc("<")>>
    ELSE <<_Token(_T_BITS, "/bits/"), Num(64), Misc("<")>>
_N_BYTES_TO_END_STR(elm_size) == IF elm_size = 1 THEN <<Misc("]")>> ELSE <<Misc(">")>>

\* _TYPE_TO_N_BYTES
_TYPE_TO_N_BYTES(marker_type) ==
    IF marker_type = _TYPE_UINT8 THEN 1
    ELSE IF marker_type = _TYPE_UINT16 THEN 2
    ELSE IF marker_type = _TYPE_UINT32 THEN 4
    ELSE 8

Text(out) == [exc |-> "none", out |-> out]
NoText(exc) == [exc |-> exc, out |-> <<>>]
CommaIf(cond) == IF cond THEN <<Misc(",")>> ELSE <<>>

\* The 'while pos != end' loop of Property.__str__.  elm_size is 0 while the
\* local variable is unbound; a pos beyond end never comes back to it
RECURSIVE str_nums(_, _, _, _, _)
str_nums(value, pos, end, elm_size, out) ==
    IF pos = end THEN [exc |-> "none", out |-> out, pos |-> pos]
    ELSE IF elm_size = 0 THEN [exc |-> "UnboundLocalError", out |-> out, pos |-> pos]
    ELSE IF pos > end THEN [exc |-> "no return", out |-> out, pos |-> pos]
    ELSE str_nums(value, pos + elm_size, end, elm_size,
                  Append(out, NumberText(FromBytes(Slice(value, pos, pos + elm_size)),
                                         elm_size)))

\* The loop of Property.__str__ over the markers, from marker i on: elm_size
\* is the local variable (0: unbound) and out the text so far.  str_marker is
\* the body for the marker and its end, str_close what follows the inner
\* loop, whose outcome is nums.
RECURSIVE str_markers(_, _, _, _)
RECURSIVE str_marker(_, _, _, _, _, _)
RECURSIVE str_close(_, _, _, _)
str_markers(prop, i, elm_size, out) ==
    IF i > Len(prop.markers) THEN Text(Append(out, Misc(";")))
    ELSE str_marker(prop, i, elm_size, out, prop.markers[i],
                    IF i < Len(prop.markers) THEN prop.markers[i + 1].pos
                    ELSE Len(prop.value))

str_marker(prop, i, elm_size, out, marker, end) ==
    IF marker.type = _TYPE_STRING
    THEN str_markers(prop, i + 1, elm_size,
             out \o <<_Token(_T_STRING,
                             StringOf(_decode_and_escape(
                                 Slice(prop.value, marker.pos, end - 1))))>>
                 \o CommaIf(end # Len(prop.value)))
    ELSE IF marker.type = _REF_PATH
    THEN str_markers(prop, i + 1, elm_size,
             out \o <<Ref(marker.ref)>> \o CommaIf(end # Len(prop.value)))
    ELSE IF marker.type = _REF_LABEL
    THEN str_close(prop, i, elm_size,
             str_nums(prop.value, marker.pos, end, elm_size,
                      Append(out, Label(marker.ref))))
    ELSE IF marker.type = _REF_PHANDLE
    THEN str_close(prop, i, elm_size,
             str_nums(prop.value, marker.pos + 4, end, elm_size,
                      Append(out, Ref(marker.ref))))
    ELSE str_close(prop, i, _TYPE_TO_N_BYTES(marker.type),
             str_nums(prop.value, marker.pos, end, _TYPE_TO_N_BYTES(marker.type),
                      out \o _N_BYTES_TO_START_STR(_TYPE_TO_N_BYTES(marker.type))))

str_close(prop, i, elm_size, nums) ==
    IF nums.exc # "none" THEN NoText(nums.exc)
    ELSE IF /\ nums.pos # 0
            /\ \/ i = Len(prop.markers)
               \/ prop.markers[i + 1].type \notin {_REF_PHANDLE, _REF_LABEL}
    THEN (IF elm_size = 0 THEN NoText("UnboundLocalError")
          ELSE str_markers(prop, i + 1, elm_size,
                   nums.out \o _N_BYTES_TO_END_STR(elm_size)
                       \o CommaIf(nums.pos # Len(prop.value))))
    ELSE str_markers(prop, i + 1, elm_size, nums.out)

\* The labels and the name a statement starts with
Labelled(labels, name) ==
    [i \in 1..Len(labels) |-> Label(labels[i])] \o <<name>>

\* Property.__str__
Property__str__(prop) ==
    IF prop.value = <<>>
    THEN Text(Labelled(prop.labels, _Token(_T_PROPNODENAME, prop.name)) \o <<Misc(";")>>)
    ELSE str_markers(prop, 1, 0,
             Labelled(prop.labels, _Token(_T_PROPNODENAME, prop.name)) \o <<Misc("=")>>)

\* Node.__str__ of node n: the loop over the properties from the i-th on, the
\* loop over the child nodes, and the closing '};'
RECURSIVE props_str(_, _, _)
RECURSIVE props_next(_, _, _, _)
props_str(props, i, out) ==
    IF i > Len(props) THEN Text(out)
    ELSE props_next(props, i, out, Property__str__(props[i]))
props_next(props, i, out, text) ==
    IF text.exc # "none" THEN text ELSE props_str(props, i + 1, out \o text.out)

RECURSIVE Node__str__(_, _)
RECURSIVE nodes_str(_, _, _)
RECURSIVE nodes_next(_, _, _, _)
nodes_str(h, children, res) ==
    IF res.exc # "none" THEN res
    ELSE IF Len(children) = 0 THEN Text(res.out \o <<Misc("}"), Misc(";")>>)
    ELSE nodes_next(h, children, res, Node__str__(h, Head(children)))
nodes_next(h, children, res, text) ==
    IF text.exc # "none" THEN text
    ELSE nodes_str(h, Tail(children), Text(res.out \o text.out))
Node__str__(h, n) ==
    nodes_str(h, h[n].nodes,
              props_str(h[n].props, 1,
                        Labelled(h[n].labels,
                                 IF h[n].name = "/" THEN Misc("/")
                                 ELSE _Token(_T_PROPNODENAME, h[n].name))
                            \o <<Misc("{")>>))

\* DT.__str__ (of a tree without /memreserve/, r its root)
DT__str__(h, r) ==
    IF Node__str__(h, r).exc # "none" THEN Node__str__(h, r)
    ELSE Text(<<_Token(_T_DTS_V1, "/dts-v1/"), Misc(";")>> \o Node__str__(h, r).out)

(***************************************************************************)
(* The typed accessors of Property.  Each gives exc, the class of the      *)
(* exception raised ("none" if it returns), and the value returned.        *)
(***************************************************************************)
\* The exception of an accessor called on a property of another type: the
\* DTError, unless formatting the property into its message raises
WrongType(prop) ==
    IF Property__str__(prop).exc = "none" THEN "DTError" ELSE Property__str__(prop).exc

Returns(val) == [exc |-> "none", val |-> val]
Raises(exc) == [exc |-> exc, val |-> <<>>]

\* Property.to_num (signed=False)
to_num(prop) ==
    IF type(prop) # TYPE_NUM THEN Raises(WrongType(prop))
    ELSE Returns(FromBytes(prop.value))

\* Property.to_nums (signed=False)
to_nums(prop) ==
    IF type(prop) \notin {TYPE_NUM, TYPE_NUMS} THEN Raises(WrongType(prop))
    ELSE Returns([i \in 1..((Len(prop.value) + 3) \div 4) |->
                     FromBytes(Slice(prop.value, 4 * (i - 1), 4 * i))])

\* Property.to_bytes
to_bytes(prop) ==
    IF type(prop) # TYPE_BYTES THEN Raises(WrongType(prop))
    ELSE Returns(prop.value)

\* Property.to_string: the characters of the string, encoded
to_string(prop) ==
    IF type(prop) # TYPE_STRING THEN Raises(WrongType(prop))
    ELSE IF ~ValidUtf8(prop.value, 1) THEN Raises("DTError")
    ELSE Returns(SubSeq(prop.value, 1, Len(prop.value) - 1))

\* Property.to_strings
to_strings(prop) ==
    IF type(prop) \notin {TYPE_STRING, TYPE_STRINGS} THEN Raises(WrongType(prop))
    ELSE IF ~ValidUtf8(prop.value, 1) THEN Raises("DTError")
    ELSE Returns(SubSeq(Split(prop.value, 0), 1, Len(Split(prop.value, 0)) - 1))

\* Property.to_node: the node, or the exception it raises
to_node(p2n, prop) ==
    IF type(prop) \notin {TYPE_PHANDLE, TYPE_NUM} THEN Raise(WrongType(prop))
    ELSE IF prop.value \notin DOMAIN p2n THEN Raise("DTError")
    ELSE Ret(p2n[prop.value])

\* Property.to_path: the node, or the exception it raises
to_path(h, r, a2n, prop) ==
    IF type(prop) \notin {TYPE_PATH, TYPE_STRING} THEN Raise(WrongType(prop))
    ELSE IF ~ValidUtf8(prop.value, 1) THEN Raise("DTError")
    ELSE LET res == get_node(h, r, a2n, SubSeq(prop.value, 1, Len(prop.value) - 1))
         IN IF res.exc = "none" THEN res ELSE Raise("DTError")

(***************************************************************************)
(* Constant expressions.  Each _eval_ operator takes the tokens not yet    *)
(* read and returns the value with the tokens left, or the exception.      *)
(***************************************************************************)
Value(val, rest) == [exc |-> "none", val |-> val, rest |-> rest]
NoValueOf(exc, rest) == [exc |-> exc, val |-> 0, rest |-> rest]

\* Python's // and % for a divisor that is not 0
PyDiv(a, b) == IF b > 0 THEN a \div b ELSE (-a) \div (-b)
PyMod(a, b) == a - b * PyDiv(a, b)

\* Python's & on integers of either sign (two's complement without a width);
\* | and ^ follow from it and from ~a = -1 - a
RECURSIVE BitAnd(_, _)
BitAnd(a, b) ==
    IF a = 0 \/ b = 0 THEN 0
    ELSE IF a = -1 THEN b
    ELSE IF b = -1 THEN a
    ELSE (a % 2) * (b % 2) + 2 * BitAnd(a \div 2, b \div 2)

BitOr(a, b) == -1 - BitAnd(-1 - a, -1 - b)
BitXor(a, b) == BitOr(a, b) - BitAnd(a, b)

RECURSIVE Pow2(_)
Pow2(n) == IF n = 0 THEN 1 ELSE 2 * Pow2(n - 1)

\* Levels in which + and - bind tighter than *, / and %
BinaryOpsAddFirst(level) ==
    CASE level = 1 -> {"||"}
      [] level = 2 -> {"&&"}
      [] level = 3 -> {"|"}
      [] level = 4 -> {"^"}
      [] level = 5 -> {"&"}
      [] level = 6 -> {"==", "!="}
      [] level = 7 -> {"<", ">", "<=", ">="}
      [] level = 8 -> {"<<", ">>"}
      [] level = 9 -> {"*", "/", "%"}
      [] level = 10 -> {"+", "-"}

\* The operators of the binary levels, from _eval_or (1) to _eval_mul (10),
\* and what each does with the value so far and its right operand
BinaryOps(level) ==
    CASE level = 1 -> {"||"}
      [] level = 2 -> {"&&"}
      [] level = 3 -> {"|"}
      [] level = 4 -> {"^"}
      [] level = 5 -> {"&"}
      [] level = 6 -> {"==", "!="}
      [] level = 7 -> {"<", ">", "<=", ">="}
      [] level = 8 -> {"<<", ">>"}
      [] level = 9 -> {"+", "-"}
      [] level = 10 -> {"*", "/", "%"}

BinaryExc(op, val, rhs) ==
    IF op \in {"/", "%"} /\ rhs = 0 THEN "DTError"
    ELSE IF op \in {"<<", ">>"} /\ rhs < 0 THEN "ValueError"
    ELSE "none"

Binary(op, val, rhs) ==
    CASE op = "||" -> IF rhs # 0 \/ val # 0 THEN 1 ELSE 0
      [] op = "&&" -> IF rhs # 0 /\ val # 0 THEN 1 ELSE 0
      [] op = "|" -> BitOr(val, rhs)
      [] op = "^" -> BitXor(val, rhs)
      [] op = "&" -> BitAnd(val, rhs)
      [] op = "==" -> IF val = rhs THEN 1 ELSE 0
      [] op = "!=" -> IF val # rhs THEN 1 ELSE 0
      [] op = "<" -> IF val < rhs THEN 1 ELSE 0
      [] op = ">" -> IF val > rhs THEN 1 ELSE 0
      [] op = "<=" -> IF val <= rhs THEN 1 ELSE 0
      [] op = ">=" -> IF val >= rhs THEN 1 ELSE 0
      [] op = "<<" -> val * Pow2(rhs)
      [] op = ">>" -> val \div Pow2(rhs)
      [] op = "+" -> val + rhs
      [] op = "-" -> val - rhs
      [] op = "*" -> val * rhs
      [] op = "/" -> PyDiv(val, rhs)
      [] op = "%" -> PyMod(val, rhs)

RECURSIVE _eval_prim(_)
RECURSIVE eval_paren(_)
RECURSIVE _eval_ternary(_)
RECURSIVE ternary_if(_)
RECURSIVE ternary_else(_, _)
RECURSIVE ternary_pick(_, _, _)
RECURSIVE eval_binary(_, _)
RECURSIVE binary_loop(_, _)
RECURSIVE binary_step(_, _, _, _)
RECURSIVE _eval_unary(_)
RECURSIVE unary_of(_, _)

\* DT._eval_prim; eval_paren is what follows self._eval_ternary() in it
_eval_prim(toks) ==
    IF Peek(toks).id \in {_T_NUM, _T_CHAR_LITERAL}
    THEN Value(Peek(toks).n, Next1(toks))
    ELSE IF Peek(toks).val # "(" THEN NoValueOf("DTError", Next1(toks))
    ELSE eval_paren(_eval_ternary(Next1(toks)))

eval_paren(v) ==
    IF v.exc # "none" THEN v
    ELSE IF Peek(v.rest).val # ")" THEN NoValueOf("DTError", Next1(v.rest))
    ELSE Value(v.val, Next1(v.rest))

\* DT._eval_ternary: cond, then if_val, then else_val are evaluated in turn
_eval_ternary(toks) == ternary_if(eval_binary(1, toks))

ternary_if(cond) ==
    IF cond.exc # "none" \/ Peek(cond.rest).val # "?" THEN cond
    ELSE ternary_else(cond.val, _eval_ternary(Next1(cond.rest)))

ternary_else(cond, if_val) ==
    IF if_val.exc # "none" THEN if_val
    ELSE IF Peek(if_val.rest).val # ":" THEN NoValueOf("DTError", Next1(if_val.rest))
    ELSE ternary_pick(cond, if_val.val, _eval_ternary(Next1(if_val.rest)))

ternary_pick(cond, if_val, else_val) ==
    IF else_val.exc # "none" \/ cond = 0 THEN else_val
    ELSE Value(if_val, else_val.rest)

\* DT._eval_or, _eval_and, _eval_bitor, _eval_bitxor, _eval_bitand, _eval_eq,
\* _eval_rela, _eval_shift, _eval_add and _eval_mul, by level: the left
\* operand, then the loop over the level's operators
eval_binary(level, toks) ==
    binary_loop(level, IF level = 10 THEN _eval_unary(toks)
                       ELSE eval_binary(level + 1, toks))

binary_loop(level, val) ==
    IF val.exc # "none" \/ Peek(val.rest).val \notin BinaryOps(level) THEN val
    ELSE binary_step(level, Peek(val.rest).val, val.val,
                     IF level = 10 THEN _eval_unary(Next1(val.rest))
                     ELSE eval_binary(level + 1, Next1(val.rest)))

binary_step(level, op, val, rhs) ==
    IF rhs.exc # "none" THEN rhs
    ELSE IF BinaryExc(op, val, rhs.val) # "none"
    THEN NoValueOf(BinaryExc(op, val, rhs.val), rhs.rest)
    ELSE binary_loop(level, Value(Binary(op, val, rhs.val), rhs.rest))

\* DT._eval_unary
_eval_unary(toks) ==
    IF Peek(toks).val \in {"-", "~", "!"}
    THEN unary_of(Peek(toks).val, _eval_unary(Next1(toks)))
    ELSE _eval_prim(toks)

unary_of(op, v) ==
    IF v.exc # "none" THEN v
    ELSE Value(CASE op = "-" -> -v.val
                 [] op = "~" -> -1 - v.val
                 [] op = "!" -> IF v.val # 0 THEN 0 ELSE 1,
               v.rest)

\* The loop of DT._parse_cells; cells_num is its body after self._eval_prim()
RECURSIVE cells_loop(_, _, _)
RECURSIVE cells_num(_, _, _)
cells_loop(prop, n_bytes, toks) ==
    IF Peek(toks).id = _T_REF
    THEN (IF n_bytes # 4 THEN PropResult("DTError", prop, Next1(toks))
          ELSE cells_loop(_add_marker(prop, _REF_PHANDLE, Peek(toks).val),
                          n_bytes, Next1(toks)))
    ELSE IF Peek(toks).id = _T_LABEL
    THEN cells_loop(_add_marker(prop, _REF_LABEL, Peek(toks).val), n_bytes, Next1(toks))
    ELSE IF Peek(toks).val = ">"
    THEN PropResult("none", prop, Next1(toks))
    ELSE cells_num(prop, n_bytes, _eval_prim(toks))

cells_num(prop, n_bytes, num) ==
    IF num.exc # "none" THEN PropResult(num.exc, prop, num.rest)
    ELSE IF ~ToBytes(num.val, n_bytes).ok THEN PropResult("DTError", prop, num.rest)
    ELSE cells_loop([prop EXCEPT !.value = @ \o ToBytes(num.val, n_bytes).bytes],
                    n_bytes, num.rest)

\* DT._parse_cells
_parse_cells(prop, n_bytes, toks) ==
    cells_loop(_add_marker(prop, _N_BYTES_TO_TYPE(n_bytes), ""), n_bytes, toks)

\* The loop of DT._parse_bytes
RECURSIVE bytes_loop(_, _)
bytes_loop(prop, toks) ==
    IF Peek(toks).id = _T_BYTE
    THEN bytes_loop([prop EXCEPT !.value = @ \o <<Peek(toks).n>>], Next1(toks))
    ELSE IF Peek(toks).id = _T_LABEL
    THEN bytes_loop(_add_marker(prop, _REF_LABEL, Peek(toks).val), Next1(toks))
    ELSE IF Peek(toks).val = "]"
    THEN PropResult("none", prop, Next1(toks))
    ELSE PropResult("DTError", prop, Next1(toks))

\* DT._parse_bytes
_parse_bytes(prop, toks) == bytes_loop(_add_marker(prop, _TYPE_UINT8, ""), toks)

\* DT._parse_value_labels
RECURSIVE _parse_value_labels(_, _)
_parse_value_labels(prop, toks) ==
    IF Peek(toks).id # _T_LABEL THEN PropResult("none", prop, toks)
    ELSE _parse_value_labels(_add_marker(prop, _REF_LABEL, Peek(toks).val),
                             Next1(toks))

\* The string case of DT._parse_assignment: val is what _unescape made of the
\* token's bytes
string_value(prop, val, toks) ==
    IF val.exc # "none" THEN PropResult(val.exc, prop, toks)
    ELSE PropResult("none", [prop EXCEPT !.value = @ \o val.val \o <<0>>], toks)

\* One value of DT._parse_assignment's loop: the token tok, then the tokens toks
assignment_value(prop, tok, toks) ==
    IF tok.val = "<" THEN _parse_cells(prop, 4, toks)
    ELSE IF tok.id = _T_BITS
    THEN (IF Peek(toks).id # _T_NUM
          THEN PropResult("DTError", prop, Next1(toks))
          ELSE IF Peek(toks).n \notin {8, 16, 32, 64}
          THEN PropResult("DTError", prop, Next1(toks))
          ELSE IF Peek(Next1(toks)).val # "<"
          THEN PropResult("DTError", prop, Next1(Next1(toks)))
          ELSE _parse_cells(prop, Peek(toks).n \div 8, Next1(Next1(toks))))
    ELSE IF tok.val = "[" THEN _parse_bytes(prop, toks)
    ELSE IF tok.id = _T_STRING
    THEN string_value(_add_marker(prop, _TYPE_STRING, ""),
                      _unescape(Chars[tok.val]), toks)
    ELSE IF tok.id = _T_REF
    THEN PropResult("none", _add_marker(prop, _REF_PATH, tok.val), toks)
    ELSE PropResult("DTError", prop, toks)

\* The loop of DT._parse_assignment: before is what the labels before a value
\* leave, value what the value leaves, after what the labels after it leave
RECURSIVE assignment_loop(_, _)
RECURSIVE assignment_value_of(_)
RECURSIVE assignment_after(_)
RECURSIVE assignment_next(_)
assignment_loop(prop, toks) == assignment_value_of(_parse_value_labels(prop, toks))

assignment_value_of(before) ==
    assignment_after(assignment_value(before.prop, Peek(before.rest), Next1(before.rest)))

assignment_after(value) ==
    IF value.exc # "none" THEN value
    ELSE assignment_next(_parse_value_labels(value.prop, value.rest))

assignment_next(after) ==
    IF Peek(after.rest).val = ";" THEN PropResult("none", after.prop, Next1(after.rest))
    ELSE IF Peek(after.rest).val = "," THEN assignment_loop(after.prop, Next1(after.rest))
    ELSE PropResult("DTError", after.prop, Next1(after.rest))

\* An assignment that appends to what the property holds
parse_assignment_appending(prop, toks) == assignment_loop(prop, toks)

\* DT._parse_assignment: the old value and markers go first
_parse_assignment(prop, toks) ==
    assignment_loop([prop EXCEPT !.value = <<>>, !.markers = <<>>], toks)

(***************************************************************************)
(* Post-processing.  Each pass is an operator from the tree (the heap h    *)
(* and the root r) to the tree it leaves, with exc the class of the        *)
(* exception it raises, "none" if it returns.                              *)
(***************************************************************************)
\* The index of the first _REF_PHANDLE marker in markers, 0 if there is none
FirstPhandleMarker(markers) ==
    IF \E i \in 1..Len(markers) : markers[i].type = _REF_PHANDLE
    THEN CHOOSE i \in 1..Len(markers) :
             /\ markers[i].type = _REF_PHANDLE
             /\ \A j \in 1..(i - 1) : markers[j].type # _REF_PHANDLE
    ELSE 0

\* The values _register_phandles refuses as phandles: 0 and 0xFFFFFFFF.  A
\* 32-bit number is held as its four big-endian base-256 digits, since it may
\* exceed TLC's integers; int.from_bytes of a 4-byte value is then the
\* value itself.
BadPhandleValues == {<<0, 0, 0, 0>>, <<255, 255, 255, 255>>}

\* register_phandle without the check for the values 0 and 0xFFFFFFFF
register_phandle_any_value(node, phandle, ref, p2n) ==
    IF Len(phandle.value) # 4 THEN [exc |-> "DTError", p2n |-> p2n]
    ELSE IF FirstPhandleMarker(phandle.markers) # 0
    THEN (IF ref.exc # "none" THEN [exc |-> ref.exc, p2n |-> p2n]
          ELSE IF ref.node # node THEN [exc |-> "DTError", p2n |-> p2n]
          ELSE [exc |-> "none", p2n |-> p2n])
    ELSE IF phandle.value \in DOMAIN p2n THEN [exc |-> "DTError", p2n |-> p2n]
    ELSE [exc |-> "none", p2n |-> (phandle.value :> node) @@ p2n]

\* register_phandle without the check for a phandle seen before
register_phandle_dup(node, phandle, ref, p2n) ==
    IF Len(phandle.value) # 4 THEN [exc |-> "DTError", p2n |-> p2n]
    ELSE IF FirstPhandleMarker(phandle.markers) # 0
    THEN (IF ref.exc # "none" THEN [exc |-> ref.exc, p2n |-> p2n]
          ELSE IF ref.node # node THEN [exc |-> "DTError", p2n |-> p2n]
          ELSE [exc |-> "none", p2n |-> p2n])
    ELSE IF phandle.value \in BadPhandleValues THEN [exc |-> "DTError", p2n |-> p2n]
    ELSE [exc |-> "none", p2n |-> (phandle.value :> node) @@ p2n]

\* The body of DT._register_phandles' loop for a node whose 'phandle' property
\* is phandle, and whose first phandle reference (if any) resolves to ref
register_phandle(node, phandle, ref, p2n) ==
    IF Len(phandle.value) # 4 THEN [exc |-> "DTError", p2n |-> p2n]
    ELSE IF FirstPhandleMarker(phandle.markers) # 0
    THEN (IF ref.exc # "none" THEN [exc |-> ref.exc, p2n |-> p2n]
          ELSE IF ref.node # node THEN [exc |-> "DTError", p2n |-> p2n]
          ELSE [exc |-> "none", p2n |-> p2n])
    ELSE IF phandle.value \in BadPhandleValues THEN [exc |-> "DTError", p2n |-> p2n]
    ELSE IF phandle.value \in DOMAIN p2n THEN [exc |-> "DTError", p2n |-> p2n]
    ELSE [exc |-> "none", p2n |-> (phandle.value :> node) @@ p2n]

\* The reference of the first phandle marker of phandle, "" if there is none
FirstPhandleRef(phandle) ==
    IF FirstPhandleMarker(phandle.markers) = 0 THEN ""
    ELSE phandle.markers[FirstPhandleMarker(phandle.markers)].ref

\* _register_phandles leaving the table empty
register_no_phandles(h, r, a2n) == [exc |-> "none", p2n |-> <<>>]

\* The loop of DT._register_phandles over the nodes left to visit; res is what
\* the nodes visited so far have given
RECURSIVE register_phandles_loop(_, _, _, _, _)
register_phandles_loop(h, r, a2n, nodes, res) ==
    IF res.exc # "none" \/ Len(nodes) = 0 THEN res
    ELSE IF ~HasProp(h, Head(nodes), "phandle")
    THEN register_phandles_loop(h, r, a2n, Tail(nodes), res)
    ELSE register_phandles_loop(h, r, a2n, Tail(nodes),
             register_phandle(
                 Head(nodes),
                 GetProp(h, Head(nodes), "phandle"),
                 IF FirstPhandleRef(GetProp(h, Head(nodes), "phandle")) = ""
                 THEN Ret(None)
                 ELSE _ref2node(h, r, a2n,
                                FirstPhandleRef(GetProp(h, Head(nodes), "phandle"))),
                 res.p2n))

\* DT._register_phandles
_register_phandles(h, r, a2n) ==
    register_phandles_loop(h, r, a2n, node_iter(h, r), [exc |-> "none", p2n |-> <<>>])

\* FreePhandle taking the number after the table's size, free or not
FreePhandleBySize(p2n) == Cardinality(DOMAIN p2n) + 1

\* The phandle DT._node_phandle allocates: phandle_i = 1, incremented while it
\* is in phandle2node
FreePhandle(p2n) ==
    CHOOSE i \in 1..(Cardinality(DOMAIN p2n) + 1) :
        /\ U32Bytes(i) \notin DOMAIN p2n
        /\ \A j \in 1..(i - 1) : U32Bytes(j) \in DOMAIN p2n

\* _node_phandle leaving the placeholder of a self-referential phandle alone
_node_phandle_keep(h, p2n, node) ==
    IF HasProp(h, node, "phandle")
    THEN [h |-> h, p2n |-> p2n, value |-> GetProp(h, node, "phandle").value]
    ELSE [h |-> SetProp(h, node,
                    [_add_marker(NewProperty("phandle"), _TYPE_UINT32, "")
                        EXCEPT !.value = U32Bytes(Cardinality(DOMAIN p2n) + 1)]),
          p2n |-> (U32Bytes(Cardinality(DOMAIN p2n) + 1) :> node) @@ p2n,
          value |-> U32Bytes(Cardinality(DOMAIN p2n) + 1)]

\* DT._node_phandle: the heap and phandle2node it leaves, and the value it returns
_node_phandle(h, p2n, node) ==
    LET phandle_prop ==
            IF HasProp(h, node, "phandle") THEN GetProp(h, node, "phandle")
            ELSE [_add_marker(NewProperty("phandle"), _TYPE_UINT32, "")
                     EXCEPT !.value = <<0, 0, 0, 0>>]
    IN IF phandle_prop.value = <<0, 0, 0, 0>>
       THEN [h |-> SetProp(h, node,
                       [phandle_prop EXCEPT !.value = U32Bytes(FreePhandle(p2n))]),
             p2n |-> (U32Bytes(FreePhandle(p2n)) :> node) @@ p2n,
             value |-> U32Bytes(FreePhandle(p2n))]
       ELSE [h |-> h, p2n |-> p2n, value |-> phandle_prop.value]

\* Markers that stay at their offsets in the unpatched value
KeepMarker(h, n, pn, i, res) == h

\* The heap after marker[0] = len(res) on marker i of property pn of node n
MoveMarker(h, n, pn, i, res) ==
    SetProp(h, n, [GetProp(h, n, pn) EXCEPT !.markers[i].pos = Len(res)])

\* The heap after _append_no_dup(prop.offset_labels, (ref, len(res)))
AddOffsetLabel(h, n, pn, ref, res) ==
    SetProp(h, n, [GetProp(h, n, pn) EXCEPT
                      !.offset_labels = _append_no_dup(@, <<ref, Len(res)>>)])

\* The heap after ref_node._is_referenced = True
SetReferenced(h, ref_node) == [h EXCEPT ![ref_node].is_referenced = TRUE]

\* The loop of DT._fixup_props over the markers of property pn of node n, from
\* marker i on, with res and prev_pos as in the code.  fixup_marker is the
\* loop's body after res += prop.value[prev_pos:pos], fixup_ref what follows
\* self._ref2node(ref), fixup_phandle what follows self._node_phandle(ref_node).
RECURSIVE fixup_markers(_, _, _, _, _, _, _, _, _)
RECURSIVE fixup_marker(_, _, _, _, _, _, _, _, _)
RECURSIVE fixup_ref(_, _, _, _, _, _, _, _, _, _)
RECURSIVE fixup_phandle(_, _, _, _, _, _, _, _)
fixup_markers(h, p2n, r, a2n, n, pn, i, res, prev_pos) ==
    IF i > Len(GetProp(h, n, pn).markers)
    THEN [exc |-> "none",
          h |-> SetProp(h, n, [GetProp(h, n, pn) EXCEPT
                                  !.value = res \o Slice(@, prev_pos, Len(@))]),
          p2n |-> p2n]
    ELSE fixup_marker(h, p2n, r, a2n, n, pn, i,
                      res \o Slice(GetProp(h, n, pn).value, prev_pos,
                                   GetProp(h, n, pn).markers[i].pos),
                      GetProp(h, n, pn).markers[i])

fixup_marker(h, p2n, r, a2n, n, pn, i, res, marker) ==
    IF marker.type = _REF_LABEL
    THEN fixup_markers(AddOffsetLabel(MoveMarker(h, n, pn, i, res), n, pn, marker.ref, res),
                       p2n, r, a2n, n, pn, i + 1, res, marker.pos)
    ELSE IF marker.type \in {_REF_PATH, _REF_PHANDLE}
    THEN fixup_ref(MoveMarker(h, n, pn, i, res), p2n, r, a2n, n, pn, i, res, marker,
                   _ref2node(h, r, a2n, marker.ref))
    ELSE fixup_markers(MoveMarker(h, n, pn, i, res), p2n, r, a2n, n, pn, i + 1,
                       res, marker.pos)

fixup_ref(h, p2n, r, a2n, n, pn, i, res, marker, ref) ==
    IF ref.exc # "none" THEN [exc |-> ref.exc, h |-> h, p2n |-> p2n]
    ELSE IF marker.type = _REF_PATH
    THEN fixup_markers(SetReferenced(h, ref.node), p2n, r, a2n, n, pn, i + 1,
                       res \o path(h, ref.node) \o <<0>>, marker.pos)
    ELSE fixup_phandle(r, a2n, n, pn, i, res, marker,
                       _node_phandle(SetReferenced(h, ref.node), p2n, ref.node))

fixup_phandle(r, a2n, n, pn, i, res, marker, ph) ==
    fixup_markers(ph.h, ph.p2n, r, a2n, n, pn, i + 1, res \o ph.value, marker.pos + 4)

\* The loop of DT._fixup_props over the properties of node n, names being the
\* names of those in tuple(node.props.values()) not yet visited; res is what
\* the properties visited so far have given
RECURSIVE fixup_node_props(_, _, _, _, _)
fixup_node_props(res, r, a2n, n, names) ==
    IF res.exc # "none" \/ Len(names) = 0 THEN res
    ELSE fixup_node_props(
             fixup_markers(res.h, res.p2n, r, a2n, n, Head(names), 1, <<>>, 0),
             r, a2n, n, Tail(names))

\* The names of the properties of node n, in order
prop_names(h, n) == [i \in 1..Len(h[n].props) |-> h[n].props[i].name]

\* The loop of DT._fixup_props over the nodes left to visit
RECURSIVE fixup_nodes(_, _, _, _)
fixup_nodes(res, r, a2n, nodes) ==
    IF res.exc # "none" \/ Len(nodes) = 0 THEN res
    ELSE fixup_nodes(
             fixup_node_props(res, r, a2n, Head(nodes), prop_names(res.h, Head(nodes))),
             r, a2n, Tail(nodes))

\* DT._fixup_props
_fixup_props(h, p2n, r, a2n) ==
    fixup_nodes([exc |-> "none", h |-> h, p2n |-> p2n], r, a2n, node_iter(h, r))

\* alias_re.match(name): [0-9a-z-]+$
alias_re_match(name) ==
    /\ Len(Chars[name]) > 0
    /\ \A i \in 1..Len(Chars[name]) :
           LET c == Chars[name][i]
           IN (c >= 48 /\ c <= 57) \/ (c >= 97 /\ c <= 122) \/ c = 45

\* The loop of DT._register_aliases over the properties of /aliases left to
\* visit; res is what the properties visited so far have given
RECURSIVE register_aliases_loop(_, _, _, _, _)
register_alias(prop, target, res) ==
    IF ~alias_re_match(prop.name) THEN [exc |-> "DTError", alias2node |-> res.alias2node]
    ELSE IF target.exc # "none" THEN [exc |-> target.exc, alias2node |-> res.alias2node]
    ELSE [exc |-> "none", alias2node |-> (prop.name :> target.node) @@ res.alias2node]

register_aliases_loop(h, r, a2n, props, res) ==
    IF res.exc # "none" \/ Len(props) = 0 THEN res
    ELSE register_aliases_loop(h, r, a2n, Tail(props),
             register_alias(Head(props), to_path(h, r, a2n, Head(props)), res))

\* DT._register_aliases: a2n is self.alias2node while the pass runs
_register_aliases(h, r, a2n) ==
    IF Child(h, r, "aliases") = None THEN [exc |-> "none", alias2node |-> <<>>]
    ELSE register_aliases_loop(h, r, a2n, h[Child(h, r, "aliases")].props,
                               [exc |-> "none", alias2node |-> <<>>])

\* seq without its elements that are nodes called name (dict.pop(name))
RECURSIVE PopName(_, _, _)
PopName(h, seq, name) ==
    IF Len(seq) = 0 THEN <<>>
    ELSE IF h[Head(seq)].name = name THEN PopName(h, Tail(seq), name)
    ELSE <<Head(seq)>> \o PopName(h, Tail(seq), name)

\* A _del_node that pops nothing from the parent's children
del_nothing(h, node) == [exc |-> "none", h |-> h]

\* DT._del_node: node.parent.nodes.pop(node.name)
_del_node(h, node) ==
    IF node = None THEN [exc |-> "AttributeError", h |-> h]
    ELSE IF h[node].parent = None THEN [exc |-> "AttributeError", h |-> h]
    ELSE IF Child(h, h[node].parent, h[node].name) = None
    THEN [exc |-> "KeyError", h |-> h]
    ELSE [exc |-> "none",
          h |-> [h EXCEPT ![h[node].parent].nodes = PopName(h, @, h[node].name)]]

\* Whether an ancestor of node n is flagged /omit-if-no-ref/ and unreferenced
RECURSIVE UnderPruned(_, _)
UnderPruned(h, n) ==
    /\ h[n].parent # None
    /\ \/ h[h[n].parent].omit_if_no_ref /\ ~h[h[n].parent].is_referenced
       \/ UnderPruned(h, h[n].parent)

\* _remove_unreferenced walking the tree while it prunes it, so that it never
\* visits the nodes below a pruned node
RECURSIVE remove_unreferenced_live(_, _)
remove_unreferenced_live(res, nodes) ==
    IF res.exc # "none" \/ Len(nodes) = 0 THEN res
    ELSE IF /\ res.h[Head(nodes)].omit_if_no_ref
            /\ ~res.h[Head(nodes)].is_referenced
            /\ ~UnderPruned(res.h, Head(nodes))
    THEN remove_unreferenced_live(_del_node(res.h, Head(nodes)), Tail(nodes))
    ELSE remove_unreferenced_live(res, Tail(nodes))

\* The loop of DT._remove_unreferenced over the nodes of tuple(self.node_iter())
\* left to visit; res is what the nodes visited so far have given
RECURSIVE remove_unreferenced_loop(_, _)
remove_unreferenced_loop(res, nodes) ==
    IF res.exc # "none" \/ Len(nodes) = 0 THEN res
    ELSE IF res.h[Head(nodes)].omit_if_no_ref /\ ~res.h[Head(nodes)].is_referenced
    THEN remove_unreferenced_loop(_del_node(res.h, Head(nodes)), Tail(nodes))
    ELSE remove_unreferenced_loop(res, Tail(nodes))

\* DT._remove_unreferenced
_remove_unreferenced(h, r) ==
    remove_unreferenced_loop([exc |-> "none", h |-> h], node_iter(h, r))

\* What a label points to in _register_labels' label2things: a node, a
\* property, or an offset in a property's value
NodeThing(n) == [kind |-> "node", node |-> n, prop |-> "", offset |-> 0]
PropThing(n, pn) == [kind |-> "prop", node |-> n, prop |-> pn, offset |-> 0]
OffsetThing(n, pn, off) == [kind |-> "offset", node |-> n, prop |-> pn, offset |-> off]

\* The (label, thing) pairs in the order _register_labels meets them
RECURSIVE prop_label_entries(_, _, _)
prop_label_entries(h, n, props) ==
    IF Len(props) = 0 THEN <<>>
    ELSE LET prop == Head(props)
         IN [i \in 1..Len(prop.labels) |->
                [label |-> prop.labels[i], thing |-> PropThing(n, prop.name)]]
            \o [i \in 1..Len(prop.offset_labels) |->
                [label |-> prop.offset_labels[i][1],
                 thing |-> OffsetThing(n, prop.name, prop.offset_labels[i][2])]]
            \o prop_label_entries(h, n, Tail(props))

RECURSIVE label_entries(_, _)
label_entries(h, nodes) ==
    IF Len(nodes) = 0 THEN <<>>
    ELSE LET n == Head(nodes)
         IN [i \in 1..Len(h[n].labels) |->
                [label |-> h[n].labels[i], thing |-> NodeThing(n)]]
            \o prop_label_entries(h, n, h[n].props)
            \o label_entries(h, Tail(nodes))

\* The dict that assigning d[label] = thing for the entries of one kind, in
\* order, builds: the last assignment to a key stays
LabelDict(entries, kind) ==
    LET idx == {i \in 1..Len(entries) : entries[i].thing.kind = kind}
        keys == {entries[i].label : i \in idx}
    IN [l \in keys |->
           LET last == CHOOSE i \in idx :
                           /\ entries[i].label = l
                           /\ \A j \in idx : entries[j].label = l => j <= i
           IN entries[last].thing]

\* label2things of the labels on nodes only
label2nodes(entries) ==
    [l \in {entries[i].label : i \in 1..Len(entries)} |->
        {entries[i].thing : i \in {j \in 1..Len(entries) :
            entries[j].label = l /\ entries[j].thing.kind = "node"}}]

\* label2things of _register_labels: the set of things each label is on
label2things(entries) ==
    [l \in {entries[i].label : i \in 1..Len(entries)} |->
        {entries[i].thing : i \in {j \in 1..Len(entries) : entries[j].label = l}}]

\* DT._register_labels, entries being the labels it meets.  It leaves
\* prop.offset_labels a dict of the same (label, offset) pairs, which the model
\* keeps as the list of pairs.
register_label_entries(entries) ==
    [exc |-> IF \E l \in DOMAIN label2things(entries) :
                    Cardinality(label2things(entries)[l]) > 1
             THEN "DTError" ELSE "none",
     label2node |-> LabelDict(entries, "node"),
     label2prop |-> LabelDict(entries, "prop"),
     label2prop_offset |-> LabelDict(entries, "offset")]

_register_labels(h, r) == register_label_entries(label_entries(h, node_iter(h, r)))

(***************************************************************************)
(* DT.__init__ as a state machine: the statements of the .dts file are     *)
(* inputs, one action per statement the parser handles, then one action    *)
(* per post-processing pass.                                               *)
(***************************************************************************)
\* An exception escapes DT.__init__: no DT object is returned
Fail(exc) ==
    /\ pc' = "error"
    /\ err' = [exc |-> exc, from |-> pc]
    /\ root' = None
    /\ heap' = <<>>
    /\ stack' = <<>>
    /\ alias2node' = <<>>
    /\ phandle2node' = <<>>
    /\ label2node' = <<>>
    /\ label2prop' = <<>>
    /\ label2prop_offset' = <<>>
    /\ is_parsing' = TRUE

\* The node whose body is being parsed (the argument of the innermost
\* _parse_node call)
CurNode == stack[Len(stack)].node

\* The labels and the /omit-if-no-ref/ flag _parse_propnode_labels collects
\* from the tokens pre that precede a node or property name
RECURSIVE LabelsOf(_)
LabelsOf(pre) ==
    IF Len(pre) = 0 THEN <<>>
    ELSE IF Head(pre).id = _T_LABEL
    THEN _append_all_no_dup(<<Head(pre).val>>, LabelsOf(Tail(pre)))
    ELSE LabelsOf(Tail(pre))
OmitOf(pre) == \E i \in 1..Len(pre) : pre[i].id = _T_OMIT_IF_NO_REF

\* DT.__init__ up to the call of _parse_dt: open(filename) raises OSError for
\* a file that is not there
OpenRoot ==
    /\ pc = "open"
    /\ IF rootfile \in DOMAIN files
       THEN /\ pc' = "header"
            /\ filename' = rootfile
            /\ file_contents' = files[rootfile]
            /\ tok_end_i' = 0
            /\ filestack' = <<>>
            /\ lineno' = 1
            /\ UNCHANGED <<err, root, heap, stack, alias2node, phandle2node,
                           label2node, label2prop, label2prop_offset, is_parsing>>
       ELSE /\ Fail("OSError")
            /\ filename' = rootfile
            /\ UNCHANGED <<file_contents, tok_end_i, filestack, lineno>>
    /\ UNCHANGED <<rootfile, include_path, files,
        lexer_state, returned>>

\* DT._parse_header (and _parse_memreserves on a file without /memreserve/):
\* has_dts_v1 says whether the file starts with '/dts-v1/;', plugin whether
\* '/plugin/' follows it
ParseHeader(has_dts_v1, plugin) ==
    /\ pc = "header"
    /\ IF has_dts_v1 /\ ~plugin
       THEN /\ pc' = "parse"
            /\ UNCHANGED <<err, root, heap, stack, alias2node, phandle2node,
                           label2node, label2prop, label2prop_offset, is_parsing>>
       ELSE Fail("DTError")
    /\ UNCHANGED lexvars

\* _parse_dt on '/ {': the root node is created by the first such block
ParseRoot ==
    /\ pc = "parse"
    /\ stack = <<>>
    /\ root = None => NodeCount(heap) < MaxNodes
    /\ IF root = None
       THEN /\ heap' = Put(heap, Alloc(heap), NewNode("/", None))
            /\ root' = Alloc(heap)
       ELSE UNCHANGED <<heap, root>>
    /\ stack' = <<[node |-> root', label |-> ""]>>
    /\ UNCHANGED <<pc, err, alias2node, phandle2node, label2node,
                   label2prop, label2prop_offset, is_parsing>>
    /\ UNCHANGED lexvars

\* _parse_dt on '&ref {' or 'label: &ref {' (label is "" without a label)
ParseRefBlock(label, ref) ==
    /\ pc = "parse"
    /\ stack = <<>>
    /\ LET res == _ref2node(heap, root, alias2node, ref)
       IN IF res.exc # "none" THEN Fail(res.exc)
          ELSE /\ stack' = <<[node |-> res.node, label |-> label]>>
               /\ UNCHANGED <<pc, err, root, heap, alias2node, phandle2node,
                              label2node, label2prop, label2prop_offset, is_parsing>>
    /\ UNCHANGED lexvars

\* _parse_dt on '/delete-node/ &ref;': the subtree taken out of the tree is garbage
TopDelNode(ref) ==
    /\ pc = "parse"
    /\ stack = <<>>
    /\ LET res == _ref2node(heap, root, alias2node, ref)
           del == _del_node(heap, res.node)
       IN IF res.exc # "none" THEN Fail(res.exc)
          ELSE IF del.exc # "none" THEN Fail(del.exc)
          ELSE /\ heap' = Release(del.h, node_iter(heap, res.node))
               /\ UNCHANGED <<pc, err, root, stack, alias2node, phandle2node,
                              label2node, label2prop, label2prop_offset, is_parsing>>
    /\ UNCHANGED lexvars

\* _parse_dt on '/omit-if-no-ref/ &ref;'
TopOmitIfNoRef(ref) ==
    /\ pc = "parse"
    /\ stack = <<>>
    /\ LET res == _ref2node(heap, root, alias2node, ref)
       IN IF res.exc # "none" THEN Fail(res.exc)
          ELSE IF res.node = None THEN Fail("AttributeError")
          ELSE /\ heap' = [heap EXCEPT ![res.node].omit_if_no_ref = TRUE]
               /\ UNCHANGED <<pc, err, root, stack, alias2node, phandle2node,
                              label2node, label2prop, label2prop_offset, is_parsing>>
    /\ UNCHANGED lexvars

\* _parse_dt at the end of the file
ParseEOF ==
    /\ pc = "parse"
    /\ stack = <<>>
    /\ IF root = None THEN Fail("DTError")
       ELSE /\ pc' = "register_phandles"
            /\ UNCHANGED <<err, root, heap, stack, alias2node, phandle2node,
                           label2node, label2prop, label2prop_offset, is_parsing>>
    /\ UNCHANGED lexvars

\* A token that neither _parse_dt nor _parse_node expects where it stands
ParseUnexpected ==
    /\ pc = "parse"
    /\ Fail("DTError")
    /\ UNCHANGED lexvars

\* _parse_node on 'pre name {': pre are the label and /omit-if-no-ref/ tokens
ParseChild(pre, name) ==
    /\ pc = "parse"
    /\ stack # <<>>
    /\ (/\ Count(Chars[name], 64) <= 1
        /\ CurNode # None
        /\ Child(heap, CurNode, name) = None) => NodeCount(heap) < MaxNodes
    /\ IF Count(Chars[name], 64) > 1 THEN Fail("DTError")
       ELSE IF CurNode = None THEN Fail("AttributeError")
       ELSE LET old == Child(heap, CurNode, name)
                child == IF old = None THEN Alloc(heap) ELSE old
                h1 == IF old = None
                      THEN [Put(heap, child, NewNode(name, CurNode))
                               EXCEPT ![CurNode].nodes = Append(@, child)]
                      ELSE heap
            IN /\ heap' = [h1 EXCEPT
                       ![child].labels = _append_all_no_dup(@, LabelsOf(pre)),
                       ![child].omit_if_no_ref = @ \/ OmitOf(pre)]
               /\ stack' = Append(stack, [node |-> child, label |-> ""])
               /\ UNCHANGED <<pc, err, root, alias2node, phandle2node,
                              label2node, label2prop, label2prop_offset, is_parsing>>
    /\ UNCHANGED lexvars

\* The property statement 'name toks' applied to the Property prop: toks are
\* the tokens after the name, through the statement's ';'
prop_statement(prop, toks) ==
    IF Peek(toks).val = "=" THEN _parse_assignment(prop, Next1(toks))
    ELSE IF Peek(toks).val = ";" THEN PropResult("none", prop, Next1(toks))
    ELSE PropResult("DTError", prop, Next1(toks))

\* _parse_node on 'pre name = ...;' and 'pre name;'
ParseProp(pre, name, toks) ==
    /\ pc = "parse"
    /\ stack # <<>>
    /\ Peek(toks).val # "{"
    /\ (/\ ~OmitOf(pre)
        /\ CurNode # None
        /\ ~HasProp(heap, CurNode, name)
        /\ 64 \notin {Chars[name][i] : i \in 1..Len(Chars[name])}) => PropCount(heap) < MaxProps
    /\ IF OmitOf(pre) THEN Fail("DTError")
       ELSE IF CurNode = None THEN Fail("AttributeError")
       ELSE LET has == HasProp(heap, CurNode, name)
                prop == IF has THEN GetProp(heap, CurNode, name) ELSE NewProperty(name)
                res == prop_statement(prop, toks)
            IN IF ~has /\ 64 \in {Chars[name][i] : i \in 1..Len(Chars[name])}
               THEN Fail("DTError")
               ELSE IF res.exc # "none" THEN Fail(res.exc)
               ELSE /\ res.rest = <<>>
                    /\ heap' = SetProp(heap, CurNode,
                                   [res.prop EXCEPT
                                       !.labels = _append_all_no_dup(@, LabelsOf(pre))])
                    /\ UNCHANGED <<pc, err, root, stack, alias2node, phandle2node,
                                   label2node, label2prop, label2prop_offset, is_parsing>>
    /\ UNCHANGED lexvars

\* _parse_node on '/delete-node/ name;'
ParseDelNode(name) ==
    /\ pc = "parse"
    /\ stack # <<>>
    /\ IF CurNode = None THEN Fail("AttributeError")
       ELSE LET del == _del_node(heap, Child(heap, CurNode, name))
            IN IF Child(heap, CurNode, name) = None
               THEN UNCHANGED treevars
               ELSE IF del.exc # "none" THEN Fail(del.exc)
               ELSE /\ heap' = Release(del.h, node_iter(heap, Child(heap, CurNode, name)))
                    /\ UNCHANGED <<pc, err, root, stack, alias2node,
                                   phandle2node, label2node, label2prop,
                                   label2prop_offset, is_parsing>>
    /\ UNCHANGED lexvars

\* seq without its elements that are properties called name (dict.pop(name, None))
RECURSIVE PopProp(_, _)
PopProp(props, name) ==
    IF Len(props) = 0 THEN <<>>
    ELSE IF Head(props).name = name THEN PopProp(Tail(props), name)
    ELSE <<Head(props)>> \o PopProp(Tail(props), name)

\* _parse_node on '/delete-property/ name;'
ParseDelProp(name) ==
    /\ pc = "parse"
    /\ stack # <<>>
    /\ IF CurNode = None THEN Fail("AttributeError")
       ELSE /\ heap' = [heap EXCEPT ![CurNode].props = PopProp(@, name)]
            /\ UNCHANGED <<pc, err, root, stack, alias2node, phandle2node,
                           label2node, label2prop, label2prop_offset, is_parsing>>
    /\ UNCHANGED lexvars

\* _parse_node on '};', and what _parse_dt does with the node it returns
ParseClose ==
    /\ pc = "parse"
    /\ stack # <<>>
    /\ LET frame == stack[Len(stack)]
       IN IF frame.label = "" 
          THEN /\ stack' = SubSeq(stack, 1, Len(stack) - 1)
               /\ UNCHANGED <<pc, err, root, heap, alias2node, phandle2node,
                              label2node, label2prop, label2prop_offset, is_parsing>>
          ELSE IF frame.node = None THEN Fail("AttributeError")
          ELSE /\ stack' = SubSeq(stack, 1, Len(stack) - 1)
               /\ heap' = [heap EXCEPT ![frame.node].labels =
                                             _append_no_dup(@, frame.label)]
               /\ UNCHANGED <<pc, err, root, alias2node, phandle2node,
                              label2node, label2prop, label2prop_offset, is_parsing>>
    /\ UNCHANGED lexvars

\* self._register_phandles() in DT.__init__
RegisterPhandles ==
    /\ pc = "register_phandles"
    /\ LET res == _register_phandles(heap, root, alias2node)
       IN IF res.exc # "none" THEN Fail(res.exc)
          ELSE /\ phandle2node' = res.p2n
               /\ pc' = "fixup_props"
               /\ UNCHANGED <<err, root, heap, stack, alias2node,
                              label2node, label2prop, label2prop_offset, is_parsing>>
    /\ UNCHANGED lexvars

\* self._fixup_props() in DT.__init__
FixupProps ==
    /\ pc = "fixup_props"
    /\ LET res == _fixup_props(heap, phandle2node, root, alias2node)
       IN IF res.exc # "none" THEN Fail(res.exc)
          ELSE /\ heap' = res.h
               /\ phandle2node' = res.p2n
               /\ pc' = "register_aliases"
               /\ UNCHANGED <<err, root, stack, alias2node,
                              label2node, label2prop, label2prop_offset, is_parsing>>
    /\ UNCHANGED lexvars

\* self._register_aliases() in DT.__init__
RegisterAliases ==
    /\ pc = "register_aliases"
    /\ LET res == _register_aliases(heap, root, alias2node)
       IN IF res.exc # "none" THEN Fail(res.exc)
          ELSE /\ alias2node' = res.alias2node
               /\ pc' = "remove_unreferenced"
               /\ UNCHANGED <<err, root, heap, stack, phandle2node,
                              label2node, label2prop, label2prop_offset, is_parsing>>
    /\ UNCHANGED lexvars

\* self._remove_unreferenced() in DT.__init__
RemoveUnreferenced ==
    /\ pc = "remove_unreferenced"
    /\ LET res == _remove_unreferenced(heap, root)
       IN IF res.exc # "none" THEN Fail(res.exc)
          ELSE /\ heap' = res.h
               /\ pc' = "register_labels"
               /\ UNCHANGED <<err, root, stack, alias2node, phandle2node,
                              label2node, label2prop, label2prop_offset, is_parsing>>
    /\ UNCHANGED lexvars

\* self._register_labels() and self._is_parsing = False in DT.__init__
RegisterLabels ==
    /\ pc = "register_labels"
    /\ LET res == _register_labels(heap, root)
       IN IF res.exc # "none" THEN Fail(res.exc)
          ELSE /\ label2node' = res.label2node
               /\ label2prop' = res.label2prop
               /\ label2prop_offset' = res.label2prop_offset
               /\ is_parsing' = FALSE
               /\ pc' = "done"
               /\ UNCHANGED <<err, root, heap, stack, alias2node, phandle2node>>
    /\ UNCHANGED lexvars

(***************************************************************************)
(* The statements the model feeds the parser.                              *)
(***************************************************************************)

\* '= <n>;'
CellValue(n) == <<Misc("="), Misc("<"), Num(n), Misc(">"), Misc(";")>>
\* '= <m n>;'
TwoCells(m, n) == <<Misc("="), Misc("<"), Num(m), Num(n), Misc(">"), Misc(";")>>
\* '= <&ref>;'
PhandleRef(ref) == <<Misc("="), Misc("<"), Ref(ref), Misc(">"), Misc(";")>>
\* '= &ref;'
PathRef(ref) == <<Misc("="), Ref(ref), Misc(";")>>
\* '= [b b b b];'
FourBytes(b) == <<Misc("="), Misc("["), Byte(b), Byte(b), Byte(b), Byte(b), Misc("]"), Misc(";")>>
\* '= "s";'
StringValue(s) == <<Misc("="), _Token(_T_STRING, s), Misc(";")>>
\* ';'
NoValue == <<Misc(";")>>

\* '= label: label: <n>;'
LabelledCell(label, n) ==
    <<Misc("="), Label(label), Label(label), Misc("<"), Num(n), Misc(">"), Misc(";")>>
\* '= <n label:>;'
CellThenLabel(n, label) ==
    <<Misc("="), Misc("<"), Num(n), Label(label), Misc(">"), Misc(";")>>

\* '(-n)' for a negative number, 'n' otherwise: a cell that evaluates to v
Number(v) ==
    IF v < 0 THEN <<Misc("("), Misc("-"), Num(-v), Misc(")")>> ELSE <<Num(v)>>
\* '= /bits/ n_bits <v>;'
BitsCell(n_bits, v) ==
    <<Misc("="), _Token(_T_BITS, "/bits/"), Num(n_bits), Misc("<")>>
        \o Number(v) \o <<Misc(">"), Misc(";")>>

\* '= chunk, chunk, ...;' for the chunks given as token sequences
RECURSIVE CommaJoin(_)
CommaJoin(chunks) ==
    IF Len(chunks) = 0 THEN <<>>
    ELSE IF Len(chunks) = 1 THEN chunks[1]
    ELSE chunks[1] \o <<Misc(",")>> \o CommaJoin(Tail(chunks))
Assign(chunks) == <<Misc("=")>> \o CommaJoin(chunks) \o <<Misc(";")>>
\* '<items>' and '"s"' as chunks
Cells(items) == <<Misc("<")>> \o items \o <<Misc(">")>>
Str(s) == <<_Token(_T_STRING, s)>>

\* A family of input files: its node statements <<pre, name>> ('pre name {'),
\* its property statements <<pre, name, toks>> ('pre name toks'), the
\* references of its top-level statements, the labels of its '&ref {' blocks
\* ("" for none) and the names it gives /delete-node/ and /delete-property/
Inputs(nodes, props, refs, labels, delnodes, delprops) ==
    [nodes |-> nodes, props |-> props, refs |-> refs, labels |-> labels,
     delnodes |-> delnodes, delprops |-> delprops]

\* Files about phandles: explicit, self-referential and allocated ones
PhandleInputs ==
    Inputs({<<<<Label("l")>>, "a">>, <<<<>>, "c">>},
           {<<<<>>, "phandle", CellValue(1)>>,
            <<<<>>, "phandle", CellValue(2)>>,
            <<<<>>, "phandle", CellValue(0)>>,
            <<<<>>, "phandle", FourBytes(255)>>,
            <<<<>>, "phandle", TwoCells(0, 1)>>,
            <<<<>>, "phandle", PhandleRef("l")>>,
            <<<<>>, "x", PhandleRef("l")>>,
            <<<<>>, "x", PhandleRef("{/c}")>>},
           {"l"}, {""}, {"a"}, {"x"})

\* Files about references and pruning: nodes flagged /omit-if-no-ref/, path
\* and phandle references to them and into them, aliases
PruneInputs ==
    Inputs({<<<<_Token(_T_OMIT_IF_NO_REF, "/omit-if-no-ref/")>>, "a">>,
            <<<<Label("l")>>, "c">>,
            <<<<>>, "aliases">>},
           {<<<<>>, "x", PathRef("l")>>,
            <<<<>>, "x", PhandleRef("l")>>,
            <<<<>>, "x", StringValue("/a")>>},
           {"l", "{/}"}, {""}, {"c"}, {"x"})

\* Files about labels: on nodes, on properties and inside values
LabelInputs ==
    Inputs({<<<<Label("l")>>, "a">>},
           {<<<<Label("l")>>, "x", NoValue>>,
            <<<<>>, "x", LabelledCell("m", 1)>>,
            <<<<>>, "x", CellThenLabel(1, "m")>>},
           {"l"}, {"", "m"}, {"a"}, {"x"})

\* Files about /delete-node/ and /delete-property/: a node with a label, a
\* property and a labelled child or sibling, deleted and defined again
DeleteInputs ==
    Inputs({<<<<Label("l")>>, "a">>, <<<<>>, "a">>, <<<<Label("m")>>, "c">>},
           {<<<<>>, "x", NoValue>>,
            <<<<>>, "x", PathRef("l")>>},
           {"l", "m"}, {""}, {"a"}, {"x"})

\* Files about the numbers in arrays: <<N, v>> is the value v in an array of
\* N-bit elements, the values being those around the bounds of 8 and 16 bits
CellNumbers ==
    ({8} \X {-129, -128, -1, 255, 256})
        \cup ({16} \X {-32769, -32768, 65535, 65536})
        \cup ({32, 64} \X {-1, 65536})
CellInputs ==
    Inputs({<<<<>>, "a">>},
           {<<<<>>, "x", BitsCell(c[1], c[2])>> : c \in CellNumbers},
           {"{/}"}, {""}, {"a"}, {"x"})

\* Files about the values of properties: every type, with and without value
\* labels, references before other data, a property assigned again
ValueInputs ==
    Inputs({<<<<Label("l")>>, "a">>},
           {<<<<>>, "x", toks>> : toks \in
               {NoValue, CellValue(1), TwoCells(1, 2), Assign(<<Cells(<<>>)>>),
                FourBytes(1), StringValue("/a"), Assign(<<Str("a"), Str("a")>>),
                PathRef("l"), PhandleRef("l"),
                Assign(<<<<Ref("l")>>, Cells(<<Num(1)>>)>>),
                Assign(<<Cells(<<Num(1), Ref("l")>>)>>),
                LabelledCell("m", 1),
                Assign(<<Str("a") \o <<Label("m")>>>>),
                BitsCell(16, 1)}},
           {"l"}, {""}, {"a"}, {"x"})

\* Files that give the property x a value more than once, each statement
\* under a label of its own, next to a second property y
AssignStatements ==
    {<<<<Label("p")>>, "x", Assign(<<Str("a") \o <<Label("m")>>>>)>>,
     <<<<Label("q")>>, "x", CellValue(1)>>,
     <<<<Label("s")>>, "x", NoValue>>,
     <<<<>>, "y", CellValue(2)>>}
AssignInputs ==
    Inputs({<<<<>>, "a">>}, AssignStatements, {"{/}"}, {""}, {"a"}, {"x"})

\* Files about aliases: /aliases with the label l and the alias x, which is
\* given as a reference to l or as the path of a node c
AliasInputs ==
    Inputs({<<<<Label("l")>>, "aliases">>, <<<<>>, "c">>},
           {<<<<>>, "x", PathRef("l")>>, <<<<>>, "x", StringValue("/c")>>},
           {"l"}, {""}, {"c"}, {"x"})

\* Files about constant expressions: the root with 'x = <(e)>;' for these
\* expressions e.  <<"binary", op1, op2>> is '7 op1 3 op2 2',
\* <<"unary", op1, op2>> is 'op1 7 op2 3' and <<"ternary", op1, op2>> is
\* '7 op1 3 ? 2 op2 1 : 5'
ExprBinaryOps == {"||", "&&", "|", "^", "&", "==", "<", ">>", "-", "%"}
ExprUnaryOps == {"-", "~", "!"}
Exprs ==
    ({"binary"} \X ExprBinaryOps \X ExprBinaryOps)
        \cup ({"unary"} \X ExprUnaryOps \X ExprBinaryOps)
        \cup ({"ternary"} \X ExprBinaryOps \X {"||", "%"})
ExprTokens(e) ==
    IF e[1] = "binary" THEN <<Num(7), Misc(e[2]), Num(3), Misc(e[3]), Num(2)>>
    ELSE IF e[1] = "unary" THEN <<Misc(e[2]), Num(7), Misc(e[3]), Num(3)>>
    ELSE <<Num(7), Misc(e[2]), Num(3), Misc("?"), Num(2), Misc(e[3]), Num(1),
           Misc(":"), Num(5)>>
ExprCell(e) ==
    <<Misc("="), Misc("<"), Misc("(")>> \o ExprTokens(e)
        \o <<Misc(")"), Misc(">"), Misc(";")>>

\* The state when DT.__init__ is entered, for a file name, an include path
\* and a file system out of the given sets
InitOn(rootfiles, include_paths, filesystems) ==
    /\ rootfile \in rootfiles
    /\ include_path \in include_paths
    /\ files \in filesystems
    /\ pc = "open"
    /\ err = [exc |-> "none", from |-> ""]
    /\ root = None
    /\ heap = <<>>
    /\ stack = <<>>
    /\ alias2node = <<>>
    /\ phandle2node = <<>>
    /\ label2node = <<>>
    /\ label2prop = <<>>
    /\ label2prop_offset = <<>>
    /\ is_parsing = TRUE
    /\ filename = <<>>
    /\ file_contents = <<>>
    /\ tok_end_i = 0
    /\ lineno = 1
    /\ filestack = <<>>
    /\ lexer_state = _DEFAULT
    /\ returned = <<>>

\* The specifications of the tree leave the lexer out: the file is there or is
\* not, and its statements are the inputs of the actions
Init == InitOn({Chars["a.dts"]}, {<<>>}, {<<>>, Chars["a.dts"] :> <<>>})

\* DT.__init__ on the files of the family A
NextOn(A) ==
    \/ OpenRoot
    \/ \E has_dts_v1, plugin \in BOOLEAN : ParseHeader(has_dts_v1, plugin)
    \/ ParseRoot
    \/ \E label \in A.labels, ref \in A.refs : ParseRefBlock(label, ref)
    \/ \E ref \in A.refs : TopDelNode(ref)
    \/ \E ref \in A.refs : TopOmitIfNoRef(ref)
    \/ ParseEOF
    \/ ParseUnexpected
    \/ \E st \in A.nodes : ParseChild(st[1], st[2])
    \/ \E st \in A.props : ParseProp(st[1], st[2], st[3])
    \/ \E name \in A.delnodes : ParseDelNode(name)
    \/ \E name \in A.delprops : ParseDelProp(name)
    \/ ParseClose
    \/ RegisterPhandles
    \/ FixupProps
    \/ RegisterAliases
    \/ RemoveUnreferenced
    \/ RegisterLabels

Next == NextOn(PhandleInputs)
Spec == Init /\ [][Next]_vars

NextLabels == NextOn(LabelInputs)
SpecLabels == Init /\ [][NextLabels]_vars

NextPrune == NextOn(PruneInputs)
SpecPrune == Init /\ [][NextPrune]_vars

NextDelete == NextOn(DeleteInputs)
SpecDelete == Init /\ [][NextDelete]_vars

NextValues == NextOn(ValueInputs)
SpecValues == Init /\ [][NextValues]_vars

NextCells == NextOn(CellInputs)
SpecCells == Init /\ [][NextCells]_vars

NextAlias == NextOn(AliasInputs)
SpecAlias == Init /\ [][NextAlias]_vars

\* DT.__init__ on the files about constant expressions, which have the root
\* node alone
NextExpr ==
    \/ OpenRoot
    \/ \E has_dts_v1, plugin \in BOOLEAN : ParseHeader(has_dts_v1, plugin)
    \/ ParseRoot
    \/ ParseEOF
    \/ \E e \in Exprs : ParseProp(<<>>, "x", ExprCell(e))
    \/ ParseClose
    \/ RegisterPhandles
    \/ FixupProps
    \/ RegisterAliases
    \/ RemoveUnreferenced
    \/ RegisterLabels
SpecExpr == Init /\ [][NextExpr]_vars

NextAssign == NextOn(AssignInputs)
SpecAssign == Init /\ [][NextAssign]_vars

(***************************************************************************)
(* The lexer's tokens.  A file is here the sequence of the pieces of text  *)
(* between its whitespace, _tok_end_i counts the pieces consumed.  The     *)
(* pieces of the model's files are such that each regular expression of    *)
(* the lexer matches a whole piece or does not match at its start.         *)
(***************************************************************************)
\* A piece of text: a string literal "text" or the characters text
Quoted(text) == [quoted |-> TRUE, text |-> text]
Plain(text) == [quoted |-> FALSE, text |-> text]

\* The keywords of token_spec among the model's pieces
Keywords == ("/bits/" :> _T_BITS) @@ ("/delete-node/" :> _T_DEL_NODE)

\* [a-zA-Z_][a-zA-Z0-9_]* matches all of s
IsIdentifier(s) ==
    /\ Len(s) > 0
    /\ s[1] \in (65..90) \cup (97..122) \cup {95}
    /\ \A i \in 1..Len(s) : s[i] \in (48..57) \cup (65..90) \cup (97..122) \cup {95}

\* _token_re at a piece: the token of the alternative of token_spec that
\* matches (string literal, keyword, label, reference), _T_BAD's id for none
token_re(piece) ==
    IF piece.quoted THEN _Token(_T_STRING, piece.text)
    ELSE IF piece.text \in DOMAIN Keywords THEN _Token(Keywords[piece.text], piece.text)
    ELSE IF /\ Len(Chars[piece.text]) > 1
            /\ Chars[piece.text][Len(Chars[piece.text])] = 58
            /\ IsIdentifier(SubSeq(Chars[piece.text], 1, Len(Chars[piece.text]) - 1))
    THEN Label(StringOf(SubSeq(Chars[piece.text], 1, Len(Chars[piece.text]) - 1)))
    ELSE IF /\ Len(Chars[piece.text]) > 1
            /\ Chars[piece.text][1] = 38
            /\ IsIdentifier(Tail(Chars[piece.text]))
    THEN Ref(StringOf(Tail(Chars[piece.text])))
    ELSE _Token(_T_BAD, "")

\* _num_re (decimal numbers), _propnodename_re and _byte_re match all of s
num_re(s) == Len(s) > 0 /\ \A i \in 1..Len(s) : s[i] \in 48..57
propnodename_re(s) ==
    /\ Len(s) > 0
    /\ \A i \in 1..Len(s) :
           s[i] \in (48..57) \cup (65..90) \cup (97..122)
                       \cup {44, 46, 95, 43, 42, 35, 63, 64, 45}
byte_re(s) == Len(s) = 2 /\ IsHex(s[1]) /\ IsHex(s[2])

\* The patterns of _misc_re
misc_re(text) ==
    text \in {"==", "!=", "!", "=", ",", ";", "+", "-", "*", "/", "%", "~", "?", ":",
              "^", "(", ")", "{", "}", "[", "]", "<<", "<=", "<", ">>", ">=", ">",
              "||", "|", "&&", "&"}

\* The regular expression of the lexer state at a piece that _token_re does
\* not match, and _misc_re where that one does not match either: the token
\* and the lexer state it leaves, _T_BAD where nothing matches
mode_re(piece, state) ==
    IF state = _DEFAULT /\ num_re(Chars[piece.text])
    THEN [tok |-> Num(IntOf(Chars[piece.text], 1, Len(Chars[piece.text]), 10)),
          state |-> state]
    ELSE IF state = _EXPECT_PROPNODENAME /\ propnodename_re(Chars[piece.text])
    THEN [tok |-> _Token(_T_PROPNODENAME, piece.text), state |-> _DEFAULT]
    ELSE IF state = _EXPECT_BYTE /\ byte_re(Chars[piece.text])
    THEN [tok |-> Byte(IntOf(Chars[piece.text], 1, 2, 16)), state |-> state]
    ELSE IF misc_re(piece.text) THEN [tok |-> Misc(piece.text), state |-> state]
    ELSE [tok |-> _Token(_T_BAD, "<unknown token>"), state |-> state]

\* The state handling at the end of DT._next_token
state_after(tok, state) ==
    IF tok.id \in {_T_DEL_PROP, _T_DEL_NODE, _T_OMIT_IF_NO_REF} \/ tok.val \in {"{", ";"}
    THEN _EXPECT_PROPNODENAME
    ELSE IF tok.val = "[" THEN _EXPECT_BYTE
    ELSE IF tok.id \in {_T_MEMRESERVE, _T_BITS} \/ tok.val = "]" THEN _DEFAULT
    ELSE state

\* What next_token gives for a token that is matched
matched(m, i) == [tok |-> m.tok, i |-> i + 1, state |-> state_after(m.tok, m.state)]

\* DT._next_token with no token saved, on the file contents at the offset i
\* in the lexer state: the token returned, the offset and the lexer state
\* it leaves
next_token(contents, i, state) ==
    IF i >= Len(contents) THEN [tok |-> EofToken, i |-> i, state |-> state]
    ELSE IF token_re(contents[i + 1]).id # _T_BAD
    THEN matched([tok |-> token_re(contents[i + 1]), state |-> state], i)
    ELSE IF mode_re(contents[i + 1], state).tok.id = _T_BAD
    THEN [tok |-> mode_re(contents[i + 1], state).tok, i |-> i, state |-> state]
    ELSE matched(mode_re(contents[i + 1], state), i)

\* The tokens the parser gets from contents from the offset i on, through
\* the first _T_BAD, which is what every later _next_token returns
RECURSIVE Tokenize(_, _, _)
Tokenize(contents, i, state) ==
    IF i >= Len(contents) THEN <<>>
    ELSE IF next_token(contents, i, state).tok.id = _T_BAD
    THEN <<next_token(contents, i, state).tok>>
    ELSE <<next_token(contents, i, state).tok>>
             \o Tokenize(contents, next_token(contents, i, state).i,
                         next_token(contents, i, state).state)

\* DT._next_token called by the parser, which is not followed: at _T_EOF it
\* has all the tokens of the file, at _T_BAD it asks again
LexNext ==
    /\ pc = "header"
    /\ Len(returned) <= Len(file_contents)
    /\ returned' = Append(returned, next_token(file_contents, tok_end_i, lexer_state).tok)
    /\ tok_end_i' = next_token(file_contents, tok_end_i, lexer_state).i
    /\ lexer_state' = next_token(file_contents, tok_end_i, lexer_state).state
    /\ pc' = IF next_token(file_contents, tok_end_i, lexer_state).tok.id = _T_EOF
             THEN "lexed" ELSE pc
    /\ UNCHANGED <<err, root, heap, stack, alias2node, phandle2node,
                   label2node, label2prop, label2prop_offset, is_parsing>>
    /\ UNCHANGED <<filename, file_contents, lineno, filestack, rootfile,
                   include_path, files>>

\* The pieces the files of the lexer specification are made of, and the
\* files: every text of up to MaxPieces pieces
Pieces ==
    {Plain("x"), Plain("12"), Plain(","), Plain(";"), Plain("{"), Plain("["),
     Plain("]"), Plain("$"), Plain("/delete-node/"), Quoted(";"), Quoted("[")}
MaxPieces == 4
Texts == UNION {[1..n -> Pieces] : n \in 0..MaxPieces}

InitLexer == InitOn({Chars["a.dts"]}, {<<>>}, {Chars["a.dts"] :> text : text \in Texts})
NextLexer == OpenRoot \/ LexNext
SpecLexer == InitLexer /\ [][NextLexer]_vars

\* The text of a statement from its pieces
Pcs(texts) == [i \in 1..Len(texts) |-> Plain(texts[i])]

\* Files whose property statements are given as text: what follows the name
\* in statements with string literals that hold a punctuation mark, and in
\* statements with text that is no token ('$', a name among the values)
LiteralContents == {"a", "<", "[", ";", ","}
LiteralStatements ==
    {<<Plain("="), Quoted(str), Plain(";")>> : str \in LiteralContents}
        \cup {<<Plain("="), Quoted("a"), Quoted(";")>>,
              <<Plain("="), Quoted("["), Plain("12"), Plain("]"), Plain(";")>>,
              <<Plain("="), Quoted("<"), Plain("12"), Plain(">"), Plain(";")>>,
              Pcs(<<"=", "<", "12", ">", ";">>),
              Pcs(<<"=", "[", "12", "]", ";">>)}
UnlexableStatements ==
    {Pcs(<<"$", ";">>),
     Pcs(<<"=", "$", ";">>),
     Pcs(<<"=", "x", ";">>),
     Pcs(<<"=", "<", "12", "$", ">", ";">>),
     Pcs(<<"=", "[", "12", "$", "]", ";">>),
     Pcs(<<"=", "<", "12", ">", "$", ";">>),
     Pcs(<<"=", "<", "12", ">", ",", "$", ";">>),
     Pcs(<<"=", "<", "(", "12", "+", "$", ")", ">", ";">>),
     Pcs(<<"=", "<", "(", "12", "<<", "(", "12", "-", "12", "-", "12", ")", "$", ")", ">", ";">>),
     <<Plain("="), Quoted("a"), Plain("$"), Plain(";")>>}
TextStatements == LiteralStatements \cup UnlexableStatements

\* The tokens the parser gets after the name of a property, which leaves the
\* lexer in the state _DEFAULT
AfterName(text) == Tokenize(text, 0, _DEFAULT)

\* DT.__init__ on the files whose statements are given as text, which have
\* the root node alone
NextText ==
    \/ OpenRoot
    \/ \E has_dts_v1, plugin \in BOOLEAN : ParseHeader(has_dts_v1, plugin)
    \/ ParseRoot
    \/ ParseEOF
    \/ \E name \in {"x", "y"}, text \in TextStatements : ParseProp(<<>>, name, AfterName(text))
    \/ ParseClose
    \/ RegisterPhandles
    \/ FixupProps
    \/ RegisterAliases
    \/ RemoveUnreferenced
    \/ RegisterLabels
SpecText == Init /\ [][NextText]_vars

(***************************************************************************)
(* The lexer's files: /include/, #line and the end of a file.  A file is   *)
(* the sequence of the tokens _token_re finds in it, _tok_end_i counts the *)
(* tokens consumed, and a file name is the sequence of its characters.     *)
(***************************************************************************)
\* The tokens of a file: name is the text between the quotes of /include/
\* and #line, n the newlines in the text of a _T_SKIP, an /include/ or a
\* string literal and the line number of a #line
Include(name) == [id |-> _T_INCLUDE, name |-> name, n |-> 0]
IncludeAfter(newlines, name) == [id |-> _T_INCLUDE, name |-> name, n |-> newlines]
StringLiteral(newlines) == [id |-> _T_STRING, name |-> "", n |-> newlines]
LineDirective(n, name) == [id |-> _T_LINE, name |-> name, n |-> n]
Skip(newlines) == [id |-> _T_SKIP, name |-> "", n |-> newlines]
Other == [id |-> _T_MISC, name |-> "", n |-> 0]

\* s.rfind("/") + 1 for the first i characters of s
RECURSIVE AfterLastSlash(_, _)
AfterLastSlash(s, i) ==
    IF i = 0 THEN 0
    ELSE IF s[i] = 47 THEN i
    ELSE AfterLastSlash(s, i - 1)

\* s.rstrip("/")
RECURSIVE RStripSlash(_)
RStripSlash(s) ==
    IF Len(s) > 0 /\ s[Len(s)] = 47 THEN RStripSlash(SubSeq(s, 1, Len(s) - 1))
    ELSE s

\* os.path.dirname
dirname(p) ==
    LET head == SubSeq(p, 1, AfterLastSlash(p, Len(p)))
    IN IF \E i \in 1..Len(head) : head[i] # 47 THEN RStripSlash(head) ELSE head

\* os.path.join of two components
join(a, b) ==
    IF Len(b) > 0 /\ b[1] = 47 THEN b
    ELSE IF Len(a) = 0 \/ a[Len(a)] = 47 THEN a \o b
    ELSE a \o <<47>> \o b

\* The loop over _include_path in DT._open, from the i-th directory on
RECURSIVE open_in_path(_, _, _, _)
open_in_path(fs, dirs, fname, i) ==
    IF i > Len(dirs) THEN [exc |-> "DTError", name |-> <<>>]
    ELSE IF join(dirs[i], fname) \in DOMAIN fs
    THEN [exc |-> "none", name |-> join(dirs[i], fname)]
    ELSE open_in_path(fs, dirs, fname, i + 1)

\* DT._open of fname while the file cur is being read: the name of the file
\* opened, or DTError when it is found neither beside cur nor on the include
\* path.  ("-", standard input, is not among the model's file names.)
_open(fs, dirs, cur, fname) ==
    IF join(dirname(cur), fname) \in DOMAIN fs
    THEN [exc |-> "none", name |-> join(dirname(cur), fname)]
    ELSE open_in_path(fs, dirs, fname, 1)

\* _parse_error in the lexer: the tree is untouched, the lexer is left as it is
LexFail(exc) ==
    /\ pc' = "error"
    /\ err' = [exc |-> exc, from |-> pc]
    /\ UNCHANGED <<root, heap, stack, alias2node, phandle2node, label2node,
                   label2prop, label2prop_offset, is_parsing>>

LexGoesOn ==
    UNCHANGED <<pc, err, root, heap, stack, alias2node, phandle2node,
                label2node, label2prop, label2prop_offset, is_parsing>>

\* DT._enter_file after the name is unescaped and decoded: f is what _open
\* returned for it, pushed the stack with the including file on it, whose
\* line number is _lineno with the newlines of the /include/ counted
enter_opened(pushed, fname, f) ==
    IF f.exc # "none"
    THEN /\ LexFail(f.exc)
         /\ lineno' = pushed[Len(pushed)][2]
         /\ UNCHANGED <<filename, file_contents, tok_end_i>>
    ELSE IF \E i \in 1..Len(pushed) : fname = pushed[i][1]
    THEN /\ LexFail("DTError")
         /\ file_contents' = files[f.name]
         /\ lineno' = pushed[Len(pushed)][2]
         /\ UNCHANGED <<filename, tok_end_i>>
    ELSE /\ LexGoesOn
         /\ file_contents' = files[f.name]
         /\ filename' = f.name
         /\ lineno' = 1
         /\ tok_end_i' = 0

\* _enter_file entering the file without remembering the including one
enter_file_no_push(pushed, fname) ==
    /\ filestack' = SubSeq(pushed, 1, Len(pushed) - 1)
    /\ IF fname.exc # "none" \/ ~ValidUtf8(fname.val, 1)
       THEN /\ LexFail("DTError")
            /\ lineno' = pushed[Len(pushed)][2]
            /\ UNCHANGED <<filename, file_contents, tok_end_i>>
       ELSE enter_opened(pushed, fname.val,
                         _open(files, include_path, filename, fname.val))

\* DT._enter_file: fname is what _unescape made of the name in the /include/
_enter_file(pushed, fname) ==
    /\ filestack' = pushed
    /\ IF fname.exc # "none" \/ ~ValidUtf8(fname.val, 1)
       THEN /\ LexFail("DTError")
            /\ lineno' = pushed[Len(pushed)][2]
            /\ UNCHANGED <<filename, file_contents, tok_end_i>>
       ELSE enter_opened(pushed, fname.val,
                         _open(files, include_path, filename, fname.val))

\* The lexer is running (the parser, which asks for the tokens from
\* _parse_header on, is not followed); AtToken: the next token of the file
\* being read is one with this id
Lexing == pc = "header"
AtToken(id) ==
    /\ Lexing
    /\ tok_end_i < Len(file_contents)
    /\ file_contents[tok_end_i + 1].id = id

\* DT._next_token on whitespace or a comment
LexSkip ==
    /\ AtToken(_T_SKIP)
    /\ tok_end_i' = tok_end_i + 1
    /\ lineno' = lineno + file_contents[tok_end_i + 1].n
    /\ LexGoesOn
    /\ UNCHANGED <<filename, file_contents, filestack, rootfile, include_path, files,
        lexer_state, returned>>

\* DT._next_token on /include/ "name": the file read so far is pushed with the
\* position after the directive
LexInclude ==
    /\ AtToken(_T_INCLUDE)
    /\ Len(filestack) < MaxIncludeDepth
    /\ _enter_file(Append(filestack,
                          <<filename, lineno + file_contents[tok_end_i + 1].n,
                            file_contents, tok_end_i + 1>>),
                   _unescape(Chars[file_contents[tok_end_i + 1].name]))
    /\ UNCHANGED <<rootfile, include_path, files,
        lexer_state, returned>>

\* DT._next_token on a #line directive
LexLine ==
    /\ AtToken(_T_LINE)
    /\ tok_end_i' = tok_end_i + 1
    /\ lineno' = file_contents[tok_end_i + 1].n - 1
    /\ filename' = Chars[file_contents[tok_end_i + 1].name]
    /\ LexGoesOn
    /\ UNCHANGED <<file_contents, filestack, rootfile, include_path, files,
        lexer_state, returned>>

\* DT._next_token on any other token, which goes to the parser
LexToken ==
    /\ AtToken(_T_MISC) \/ AtToken(_T_STRING)
    /\ tok_end_i' = tok_end_i + 1
    /\ LexGoesOn
    /\ UNCHANGED <<filename, file_contents, lineno, filestack, rootfile,
                   include_path, files,
        lexer_state, returned>>

\* DT._next_token at the end of a file: DT._leave_file for an included file,
\* the _T_EOF token at the end of the file DT.__init__ was given
LexEOF ==
    /\ Lexing
    /\ tok_end_i = Len(file_contents)
    /\ IF filestack # <<>>
       THEN /\ filename' = filestack[Len(filestack)][1]
            /\ lineno' = filestack[Len(filestack)][2]
            /\ file_contents' = filestack[Len(filestack)][3]
            /\ tok_end_i' = filestack[Len(filestack)][4]
            /\ filestack' = SubSeq(filestack, 1, Len(filestack) - 1)
            /\ LexGoesOn
       ELSE /\ pc' = "lexed"
            /\ UNCHANGED <<err, root, heap, stack, alias2node, phandle2node,
                           label2node, label2prop, label2prop_offset, is_parsing>>
            /\ UNCHANGED <<filename, lineno, file_contents, tok_end_i, filestack>>
    /\ UNCHANGED <<rootfile, include_path, files,
        lexer_state, returned>>

\* The files of the include specification: a.dts, d/a.dts and d/b.dts, each
\* with one of these contents
FileContents ==
    { <<Other, Skip(1)>>,
      <<Include("a.dts"), Skip(1)>>,
      <<Skip(1), Include("b.dts")>>,
      <<Include("\\x61.dts")>>,
      <<LineDirective(3, "d/x.dts"), Include("a.dts")>>,
      <<Include("\\377.dts")>>,
      <<IncludeAfter(1, "b.dts"), StringLiteral(1)>> }

FileNames == {Chars["a.dts"], Chars["d/a.dts"], Chars["d/b.dts"]}

InitInclude ==
    InitOn({Chars["a.dts"], Chars["d/a.dts"]}, {<<>>, <<Chars["d"]>>},
           [FileNames -> FileContents])

NextInclude ==
    \/ OpenRoot
    \/ LexSkip
    \/ LexInclude
    \/ LexLine
    \/ LexToken
    \/ LexEOF

SpecInclude == InitInclude /\ [][NextInclude]_vars

(***************************************************************************)
(* Properties of the include stack.                                        *)
(***************************************************************************)
\* C6: a file cannot include itself, directly or through other files: an
\* /include/ of a file that is already being read stops the parse with
\* DTError, so the files being read (the one at hand and those on the include
\* stack) are distinct files and the stack stays below the number of files
C6_IncludeStackBounded == Len(filestack) < Cardinality(DOMAIN files)

\* A cycle that is found: /include/ of a name on the stack raises DTError
C6_Witness ==
    /\ pc = "error"
    /\ err.exc = "DTError"
    /\ \E i \in 1..Len(filestack) :
          /\ files[filestack[i][1]] = filestack[i][3]
          /\ file_contents = filestack[i][3]
          /\ filestack[i][3][filestack[i][4]].id = _T_INCLUDE
          /\ filestack[i][3][filestack[i][4]].name = "a.dts"
          /\ filestack[i][1] = Chars["a.dts"]

\* The lexer is at an /include/, and at the end of an included file
AtInclude == AtToken(_T_INCLUDE)
AtIncludedEnd == Lexing /\ tok_end_i = Len(file_contents) /\ filestack # <<>>

\* C24: each /include/ pushes one frame, with the file name, the line
\* number, the contents and the offset after the /include/ of the including
\* file; each end of an included file pops one frame and restores the four
\* from it; and the _T_EOF token is returned only at the end of a file with
\* the stack empty, where a later request finds the lexer unchanged
C24_IncludeFrames ==
    [][/\ AtInclude =>
              /\ Len(filestack') = Len(filestack) + 1
              /\ SubSeq(filestack', 1, Len(filestack)) = filestack
              /\ filestack'[Len(filestack')] =
                     <<filename, lineno + file_contents[tok_end_i + 1].n,
                       file_contents, tok_end_i + 1>>
       /\ AtIncludedEnd =>
              /\ filestack' = SubSeq(filestack, 1, Len(filestack) - 1)
              /\ <<filename', lineno', file_contents', tok_end_i'>>
                     = filestack[Len(filestack)]
              /\ pc' = pc
       /\ pc' = "lexed" =>
              /\ filestack = <<>> /\ filestack' = <<>>
              /\ tok_end_i = Len(file_contents)
              /\ tok_end_i' = Len(file_contents')
       /\ (Lexing /\ Len(filestack') = Len(filestack) + 1) => AtInclude
       /\ (Lexing /\ Len(filestack') < Len(filestack)) => AtIncludedEnd
    ]_vars

\* The end of the root file was reached after the file it includes, with a
\* newline between /include/ and the name, was read and left at line 2
C24_Witness ==
    /\ pc = "lexed"
    /\ filestack = <<>>
    /\ filename = rootfile
    /\ lineno = 2
    /\ file_contents = <<IncludeAfter(1, "b.dts"), StringLiteral(1)>>
    /\ files[rootfile] = file_contents
    /\ files[_open(files, include_path, rootfile, Chars["b.dts"]).name] = <<Other, Skip(1)>>

(***************************************************************************)
(* Properties of the line number.                                          *)
(***************************************************************************)
\* The line after the first k tokens of a file: 1 at the start, what a #line
\* directive sets, and one more for every newline in the text of a token
RECURSIVE LineAfter(_, _)
LineAfter(contents, k) ==
    IF k = 0 THEN 1
    ELSE IF contents[k].id = _T_LINE THEN contents[k].n - 1
    ELSE LineAfter(contents, k - 1) + contents[k].n

\* C27: while the lexer runs, the line number is the line at the start of
\* the file being read, or the one the last #line directive of the file set,
\* plus the newlines in all the text consumed since, those inside /include/
\* tokens and string literals included
C27_LineNumber == (Lexing \/ pc = "lexed") => lineno = LineAfter(file_contents, tok_end_i)

\* A string literal with a newline in it was consumed on line 2 of a file,
\* and the line number is still 2
C27_Witness ==
    /\ Lexing
    /\ tok_end_i = 2
    /\ file_contents[2] = StringLiteral(1)
    /\ LineAfter(file_contents, 1) = 2
    /\ lineno = 2

(***************************************************************************)
(* Properties of the lexer states.                                         *)
(***************************************************************************)
\* The tokens after which the lexer expects a property or node name
EntersPropNodeName(tok) ==
    \/ tok \in {Misc("{"), Misc(";")}
    \/ tok.id \in {_T_DEL_NODE, _T_DEL_PROP, _T_OMIT_IF_NO_REF}

\* C23: _next_token returns a name token only in the state
\* _EXPECT_PROPNODENAME, a byte token only in _EXPECT_BYTE and a number
\* token only in _DEFAULT; in the tokens returned there is a '{', ';',
\* /delete-node/, /delete-property/ or /omit-if-no-ref/ token between every
\* two name tokens, and before every byte token a '[' token with no ']'
\* token between the two
C23_TokensOfTheState ==
    [][returned' # returned =>
          /\ returned'[Len(returned')].id = _T_PROPNODENAME =>
                 lexer_state = _EXPECT_PROPNODENAME
          /\ returned'[Len(returned')].id = _T_BYTE => lexer_state = _EXPECT_BYTE
          /\ returned'[Len(returned')].id = _T_NUM => lexer_state = _DEFAULT
          /\ \A i, j \in 1..Len(returned') :
                 (/\ i < j
                  /\ returned'[i].id = _T_PROPNODENAME
                  /\ returned'[j].id = _T_PROPNODENAME) =>
                     \E k \in (i + 1)..(j - 1) : EntersPropNodeName(returned'[k])
          /\ \A j \in 1..Len(returned') :
                 returned'[j].id = _T_BYTE =>
                     \E i \in 1..(j - 1) :
                         /\ returned'[i] = Misc("[")
                         /\ \A k \in (i + 1)..(j - 1) : returned'[k] # Misc("]")
    ]_vars

\* The tokens of '; x ";" x' were returned: two names with a string literal
\* between them after the first
C23_Witness ==
    /\ pc = "lexed"
    /\ file_contents = <<Plain(";"), Plain("x"), Quoted(";"), Plain("x")>>
    /\ returned = <<Misc(";"), _Token(_T_PROPNODENAME, "x"), _Token(_T_STRING, ";"),
                    _Token(_T_PROPNODENAME, "x"), EofToken>>

(***************************************************************************)
(* Properties of the exceptions.                                           *)
(***************************************************************************)
\* C10: a DT construction that does not return a tree raises DTError: no
\* other kind of exception escapes DT.__init__, whatever the fault
C10_OnlyDTError == pc = "error" => err.exc = "DTError"

\* /delete-node/ or /omit-if-no-ref/ on the root ends in an exception that is
\* not DTError
C10_Witness ==
    /\ pc = "error"
    /\ err.exc = "AttributeError"
    /\ err.from \in {"parse", "remove_unreferenced"}

(***************************************************************************)
(* Properties of the numbers in arrays.                                    *)
(***************************************************************************)
\* The i-th of the n big-endian bytes of v mod 2^(8n), for a v that TLC's
\* integers hold: from the fifth byte up it is the sign alone
ByteOf(v, n, i) ==
    IF n - i >= 4 THEN (IF v < 0 THEN 255 ELSE 0)
    ELSE (v \div Pow2(8 * (n - i))) % 256
BigEndian(v, n) == [i \in 1..n |-> ByteOf(v, n, i)]

\* -2^(N-1) <= v < 2^N; every integer TLC holds is in the range for N >= 32
InCellRange(v, n_bits) ==
    /\ n_bits = 8 => (v >= -128 /\ v < 256)
    /\ n_bits = 16 => (v >= -32768 /\ v < 65536)

\* C12: in an array of N-bit elements a value v is accepted iff
\* -2^(N-1) <= v < 2^N, and then contributes the N/8 big-endian bytes of
\* v mod 2^N; any other v is a parse error (DTError) and no tree is built.
\* (The array is the value of a property of a node that exists.)
C12_CellRange ==
    [][(pc = "parse" /\ stack # <<>> /\ CurNode # None) =>
          \A c \in CellNumbers :
              ParseProp(<<>>, "x", BitsCell(c[1], c[2])) =>
                  IF InCellRange(c[2], c[1])
                  THEN /\ pc' = "parse"
                       /\ GetProp(heap', CurNode, "x").value
                              = BigEndian(c[2], c[1] \div 8)
                       /\ GetProp(heap', CurNode, "x").markers
                              = <<Marker(0, _N_BYTES_TO_TYPE(c[1] \div 8), "")>>
                  ELSE /\ pc' = "error"
                       /\ err'.exc = "DTError"]_vars

\* -32768 went into an array of 16-bit elements (no other number of the
\* family gives these bytes), and a tree came out of it
C12_Witness ==
    /\ pc = "done"
    /\ HasProp(heap, root, "x")
    /\ GetProp(heap, root, "x").value = <<128, 0>>
    /\ GetProp(heap, root, "x").markers = <<Marker(0, _TYPE_UINT16, "")>>

(***************************************************************************)
(* Properties of the inferred type.                                        *)
(***************************************************************************)
\* The Property objects of the nodes there are
AllProps ==
    UNION {{heap[n].props[i] : i \in 1..Len(heap[n].props)} : n \in 1..Len(heap)}

\* The marker kinds of a property with the value labels removed
NotValueLabel(marker) == marker.type # _REF_LABEL
KindsOf(prop) ==
    LET kept == SelectSeq(prop.markers, NotValueLabel)
    IN [i \in 1..Len(kept) |-> kept[i].type]
AllOfKind(kinds, kind) == Len(kinds) >= 1 /\ \A i \in 1..Len(kinds) : kinds[i] = kind

\* The type the table gives for marker kinds and a value length
TypeTable(kinds, length) ==
    IF kinds = <<>> THEN TYPE_EMPTY
    ELSE IF kinds = <<_TYPE_UINT8>> THEN TYPE_BYTES
    ELSE IF kinds = <<_TYPE_UINT32>> /\ length = 4 THEN TYPE_NUM
    ELSE IF AllOfKind(kinds, _TYPE_UINT32) THEN TYPE_NUMS
    ELSE IF kinds = <<_TYPE_STRING>> THEN TYPE_STRING
    ELSE IF AllOfKind(kinds, _TYPE_STRING) THEN TYPE_STRINGS
    ELSE IF kinds = <<_REF_PATH>> THEN TYPE_PATH
    ELSE IF kinds = <<_TYPE_UINT32, _REF_PHANDLE>> /\ length = 4 THEN TYPE_PHANDLE
    ELSE TYPE_COMPOUND

\* C13: Property.type depends only on the marker kinds with the REF-LABEL
\* markers removed and on the value length, as the table says (EMPTY, BYTES,
\* NUM, NUMS, STRING, STRINGS, PATH, PHANDLE, else COMPOUND); adding or
\* removing value labels never changes the type
C13_TypeOfMarkers ==
    \A prop \in AllProps :
        /\ type(prop) = TypeTable(KindsOf(prop), Len(prop.value))
        /\ type([prop EXCEPT !.markers = SelectSeq(@, NotValueLabel)]) = type(prop)
        /\ \A i \in 0..Len(prop.markers) :
              type([prop EXCEPT !.markers =
                       SubSeq(@, 1, i) \o <<Marker(0, _REF_LABEL, "m")>>
                           \o SubSeq(@, i + 1, Len(@))]) = type(prop)

\* A tree with a property of type NUM that carries value labels, and one of
\* type COMPOUND
C13_Witness ==
    /\ pc = "done"
    /\ \E prop \in AllProps :
          /\ type(prop) = TYPE_NUM
          /\ \E i \in 1..Len(prop.markers) : prop.markers[i].type = _REF_LABEL
    /\ \E prop \in AllProps : type(prop) = TYPE_COMPOUND

(***************************************************************************)
(* Properties of get_node.                                                 *)
(***************************************************************************)
\* The paths looked up: up to four of the components '', c, x and aliases,
\* joined by '/'
PathComponents == {Chars[""], Chars["c"], Chars["x"], Chars["aliases"]}
Paths ==
    {Join(parts, 47) :
        parts \in UNION {[1..k -> PathComponents] : k \in 1..4}}

\* The node reached from node n through the children named by components,
\* None if one of them does not exist
RECURSIVE Follow(_, _, _)
Follow(h, n, components) ==
    IF Len(components) = 0 THEN n
    ELSE IF \E i \in 1..Len(h[n].nodes) :
                Chars[h[h[n].nodes[i]].name] = Head(components)
    THEN Follow(h, CHOOSE c \in {h[n].nodes[i] : i \in 1..Len(h[n].nodes)} :
                       Chars[h[c].name] = Head(components),
                Tail(components))
    ELSE None

\* The components of a path that are not empty, and its first component
NotEmpty(component) == component # <<>>
Components(p) == SelectSeq(Split(p, 47), NotEmpty)
FirstComponent(p) == Split(p, 47)[1]

\* What the paths are to give: from the root for a path that starts with
\* '/', else from the node of the alias that the first component names
Named(p) ==
    IF Len(p) > 0 /\ p[1] = 47 THEN Follow(heap, root, Components(p))
    ELSE IF \E a \in DOMAIN alias2node : Chars[a] = FirstComponent(p)
    THEN Follow(heap,
                alias2node[CHOOSE a \in DOMAIN alias2node : Chars[a] = FirstComponent(p)],
                Tail(Components(p)))
    ELSE None

\* C15: in a constructed tree get_node(path) returns the node reached from the
\* root (path starting with '/') or from the node of the alias the first
\* component names, following the non-empty components through the children;
\* it raises DTError when there is no such node, and has_node(path) is TRUE
\* exactly when get_node(path) does not raise
C15_GetNode ==
    pc = "done" =>
        \A p \in Paths :
            /\ get_node(heap, root, alias2node, p)
                  = IF Named(p) = None THEN Raise("DTError") ELSE Ret(Named(p))
            /\ has_node(heap, root, alias2node, p)
                  = [exc |-> "none", val |-> Named(p) # None]

\* /aliases has the alias x for itself and the child c: 'x//c/' is
\* /aliases/c, and neither '/x' nor 'x/x' exists
C15_Witness ==
    /\ pc = "done"
    /\ "x" \in DOMAIN alias2node
    /\ get_node(heap, root, alias2node, Chars["/"]).node = root
    /\ LET c == get_node(heap, root, alias2node, <<120, 47, 47, 99, 47>>)
       IN /\ c.exc = "none"
          /\ heap[c.node].name = "c"
          /\ heap[c.node].parent = alias2node["x"]
          /\ heap[alias2node["x"]].name = "aliases"
    /\ get_node(heap, root, alias2node, <<47, 120>>).exc = "DTError"
    /\ get_node(heap, root, alias2node, <<120, 47, 120>>).exc = "DTError"

(***************************************************************************)
(* Properties of the typed accessors.                                      *)
(***************************************************************************)
\* An accessor that accepts the types accepted and has raised exc ("none":
\* it returned) for the property: exc is DTError when the type is another
\* one, and it is expected when the type is accepted
OnlyFor(accepted, prop, exc, expected) ==
    IF type(prop) \in accepted THEN expected ELSE exc = "DTError"

\* C14: on the properties of a constructed tree each accessor raises DTError
\* unless the property has a type it accepts (to_num NUM; to_nums NUM, NUMS;
\* to_bytes BYTES; to_string STRING; to_strings STRING, STRINGS; to_node
\* PHANDLE, NUM; to_path PATH, STRING); to_node gives the node the value is
\* the phandle of and to_path the node the value is the path of, and both
\* raise DTError when there is no such node
C14_Accessors ==
    pc = "done" =>
        \A prop \in AllProps :
            /\ OnlyFor({TYPE_NUM}, prop, to_num(prop).exc,
                       to_num(prop) = Returns(FromBytes(prop.value)))
            /\ OnlyFor({TYPE_NUM, TYPE_NUMS}, prop, to_nums(prop).exc,
                       to_nums(prop).exc = "none")
            /\ OnlyFor({TYPE_BYTES}, prop, to_bytes(prop).exc,
                       to_bytes(prop) = Returns(prop.value))
            /\ OnlyFor({TYPE_STRING}, prop, to_string(prop).exc,
                       to_string(prop).exc = "none")
            /\ OnlyFor({TYPE_STRING, TYPE_STRINGS}, prop, to_strings(prop).exc,
                       to_strings(prop).exc = "none")
            /\ OnlyFor({TYPE_PHANDLE, TYPE_NUM}, prop, to_node(phandle2node, prop).exc,
                       to_node(phandle2node, prop)
                           = IF prop.value \in DOMAIN phandle2node
                             THEN Ret(phandle2node[prop.value]) ELSE Raise("DTError"))
            /\ OnlyFor({TYPE_PATH, TYPE_STRING}, prop,
                       to_path(heap, root, alias2node, prop).exc,
                       to_path(heap, root, alias2node, prop)
                           = IF Named(SubSeq(prop.value, 1, Len(prop.value) - 1)) = None
                             THEN Raise("DTError")
                             ELSE Ret(Named(SubSeq(prop.value, 1, Len(prop.value) - 1))))

\* 'x = "a" m:;' in a constructed tree: a string, and to_num raises
\* UnboundLocalError for it
C14_Witness ==
    /\ pc = "done"
    /\ \E prop \in AllProps :
          /\ type(prop) = TYPE_STRING
          /\ prop.value = <<97, 0>>
          /\ to_num(prop).exc = "UnboundLocalError"
          /\ to_string(prop) = Returns(<<97>>)

(***************************************************************************)
(* Properties of the serialization.                                        *)
(***************************************************************************)
\* The statement of a property's text taken apart as _parse_node does: the
\* labels before the name, the name, and the Property that the tokens after
\* the name give a new one
NameAt(text) == CHOOSE i \in 1..Len(text) : text[i].id = _T_PROPNODENAME
Reparsed(text) ==
    LET res == prop_statement(NewProperty(text[NameAt(text)].val),
                              SubSeq(text, NameAt(text) + 1, Len(text)))
    IN [exc |-> res.exc, rest |-> res.rest,
        prop |-> [res.prop EXCEPT
                     !.labels = LabelsOf(SubSeq(text, 1, NameAt(text) - 1))]]

\* The tree in which the property of node n that parsed is named after has
\* become parsed and _fixup_props has patched it
Patched(n, parsed) ==
    fixup_markers(SetProp(heap, n, parsed), phandle2node, root, alias2node,
                  n, parsed.name, 1, <<>>, 0)

\* The text of a property of node n parses, and what it parses to is patched
\* to the property
RoundTrips(n, prop) ==
    /\ Property__str__(prop).exc = "none"
    /\ Reparsed(Property__str__(prop).out).exc = "none"
    /\ Reparsed(Property__str__(prop).out).rest = <<>>
    /\ Patched(n, Reparsed(Property__str__(prop).out).prop).exc = "none"
    /\ GetProp(Patched(n, Reparsed(Property__str__(prop).out).prop).h, n, prop.name) = prop

\* C11: the text str(dt) of a constructed tree parses again to an equal
\* tree: str(dt) returns, the text has the root's '/' where _parse_dt wants
\* it, and the statement of every property parses to a property with the
\* same bytes, markers and so type, labels and value labels
C11_RoundTrip ==
    pc = "done" =>
        /\ DT__str__(heap, root).exc = "none"
        /\ DT__str__(heap, root).out[3] = Misc("/")
        /\ \A i \in 1..Len(node_iter(heap, root)) :
              \A j \in 1..Len(heap[node_iter(heap, root)[i]].props) :
                  RoundTrips(node_iter(heap, root)[i],
                             heap[node_iter(heap, root)[i]].props[j])

\* 'x = <>;' in the root of a constructed tree: an array without elements,
\* of the type NUMS, whose text is 'x;'
C11_Witness ==
    /\ pc = "done"
    /\ root # None
    /\ HasProp(heap, root, "x")
    /\ type(GetProp(heap, root, "x")) = TYPE_NUMS
    /\ Property__str__(GetProp(heap, root, "x"))
          = Text(<<_Token(_T_PROPNODENAME, "x"), Misc(";")>>)

\* The element widths of the array openers in a text, in order: '[' is 1,
\* '/bits/ 16 <' is 2, '<' is 4, '/bits/ 64 <' is 8
RECURSIVE Openers(_, _)
Openers(out, i) ==
    IF i > Len(out) THEN <<>>
    ELSE IF out[i] = Misc("[") THEN <<1>> \o Openers(out, i + 1)
    ELSE IF out[i] = Misc("<")
    THEN (IF i > 2 /\ out[i - 2].id = _T_BITS
          THEN <<out[i - 1].n \div 8>> ELSE <<4>>) \o Openers(out, i + 1)
    ELSE Openers(out, i + 1)

\* The element widths of the typed-integer markers, in order
RECURSIVE Regions(_)
Regions(markers) ==
    IF markers = <<>> THEN <<>>
    ELSE (IF Head(markers).type \in {_TYPE_UINT8, _TYPE_UINT16, _TYPE_UINT32, _TYPE_UINT64}
          THEN <<_TYPE_TO_N_BYTES(Head(markers).type)>> ELSE <<>>)
             \o Regions(Tail(markers))

\* In the text from token i on, with open the opener of the array the text
\* is in ("" outside an array): every closer closes the array that is open
\* with the bracket of its opener, no array opens inside another, strings
\* and path references stand outside arrays, as does the end
RECURSIVE Bracketed(_, _, _)
Bracketed(out, i, open) ==
    IF i > Len(out) THEN open = ""
    ELSE IF out[i] \in {Misc("<"), Misc("[")}
    THEN open = "" /\ Bracketed(out, i + 1, out[i].val)
    ELSE IF out[i] = Misc(">") THEN open = "<" /\ Bracketed(out, i + 1, "")
    ELSE IF out[i] = Misc("]") THEN open = "[" /\ Bracketed(out, i + 1, "")
    ELSE IF out[i].id = _T_STRING \/ out[i] = Misc(",")
    THEN open = "" /\ Bracketed(out, i + 1, open)
    ELSE Bracketed(out, i + 1, open)

\* C28: for every property of a constructed tree Property.__str__ returns,
\* and in its text each typed-integer region has one opener of its element
\* width and after it one matching closer, no closer stands without its
\* opener, and strings and the commas between chunks stand outside the arrays
C28_SerializationBracketed ==
    pc = "done" =>
        \A prop \in AllProps :
            /\ Property__str__(prop).exc = "none"
            /\ Bracketed(Property__str__(prop).out, 1, "")
            /\ prop.value # <<>> =>
                   Openers(Property__str__(prop).out, 1) = Regions(prop.markers)

\* 'x = "a" m:;' in a constructed tree: a string chunk and a value label
\* after it, for which Property.__str__ raises UnboundLocalError
C28_Witness ==
    /\ pc = "done"
    /\ \E prop \in AllProps :
          /\ Len(prop.markers) = 2
          /\ prop.markers[1].type = _TYPE_STRING
          /\ prop.markers[2] = [pos |-> 2, type |-> _REF_LABEL, ref |-> "m"]
          /\ Property__str__(prop) = NoText("UnboundLocalError")

(***************************************************************************)
(* Properties of #line directives.                                         *)
(***************************************************************************)
\* The names an /include/ can give in the files of the include specification
IncludeNames == {Chars["a.dts"], Chars["b.dts"]}

\* C16: a #line directive changes only the file name and the line number of
\* diagnostics: every /include/ after it opens the file it would have opened
\* without the directive, and the name that the recursive-include check will
\* compare with for the file being read stays the same
C16_LineOnlyDiagnostics ==
    [][LexLine =>
          /\ \A name \in IncludeNames :
                _open(files, include_path, filename', name)
                    = _open(files, include_path, filename, name)
          /\ Append(filestack', <<filename', lineno', file_contents', tok_end_i'>>)[
                 Len(filestack') + 1][1] = filename]_vars

\* a.dts holds '#line 3 "d/x.dts"' and '/include/ "a.dts"': the file entered
\* is d/a.dts and the name pushed for a.dts is d/x.dts
C16_Witness ==
    /\ Lexing
    /\ rootfile = Chars["a.dts"]
    /\ Len(filestack) = 1
    /\ filestack[1][1] = Chars["d/x.dts"]
    /\ filename = Chars["d/a.dts"]

\* C17: when the constructor has read its input to the end, DT.filename is
\* the file name the constructor was given, whatever files were included and
\* whatever #line directives were read
C17_FilenameKept == pc = "lexed" => filename = rootfile

\* The root file a.dts read to its end after its '#line 3 "d/x.dts"'
C17_Witness ==
    /\ pc = "lexed"
    /\ rootfile = Chars["a.dts"]
    /\ filename = Chars["d/x.dts"]

(***************************************************************************)
(* Properties of the statements that assign to a property.                 *)
(***************************************************************************)
\* A step of the parser inside the body of a node that leaves it there
InBody == pc = "parse" /\ stack # <<>> /\ CurNode # None /\ pc' = "parse"

\* The names of the properties of a node, in order
PropOrder(h, n) == [i \in 1..Len(h[n].props) |-> h[n].props[i].name]

\* C18: when 'name = ...;' assigns to a property the node already has, the
\* value and the markers afterwards are those the assignment gives a new
\* property, and the order of the node's properties is as before
C18_LastAssignmentOnly ==
    [][InBody =>
          \A st \in AssignStatements :
              (/\ HasProp(heap, CurNode, st[2])
               /\ Peek(st[3]).val = "="
               /\ ParseProp(st[1], st[2], st[3])) =>
                  /\ GetProp(heap', CurNode, st[2]).value
                        = _parse_assignment(NewProperty(st[2]), Next1(st[3])).prop.value
                  /\ GetProp(heap', CurNode, st[2]).markers
                        = _parse_assignment(NewProperty(st[2]), Next1(st[3])).prop.markers
                  /\ PropOrder(heap', CurNode) = PropOrder(heap, CurNode)]_vars

\* The root has x before y; x was assigned 'p: x = "a" m:;' and later
\* 'q: x = <1>;', and holds the one cell
C18_Witness ==
    /\ pc = "done"
    /\ root # None
    /\ PropOrder(heap, root) = <<"x", "y">>
    /\ GetProp(heap, root, "x").labels = <<"p", "q">>
    /\ GetProp(heap, root, "x").value = <<0, 0, 0, 1>>
    /\ GetProp(heap, root, "x").markers = <<Marker(0, _TYPE_UINT32, "")>>

\* C19: after the statement 'name;' the node has the property name, which is
\* empty (no value, no markers, type EMPTY) whether or not it had a value
\* before, and carries the labels that preceded the statement
C19_NameOnlyIsEmpty ==
    [][InBody =>
          \A st \in AssignStatements :
              (Peek(st[3]).val = ";" /\ ParseProp(st[1], st[2], st[3])) =>
                  /\ HasProp(heap', CurNode, st[2])
                  /\ GetProp(heap', CurNode, st[2]).value = <<>>
                  /\ GetProp(heap', CurNode, st[2]).markers = <<>>
                  /\ type(GetProp(heap', CurNode, st[2])) = TYPE_EMPTY
                  /\ \A i \in 1..Len(st[1]) :
                        In(st[1][i].val, GetProp(heap', CurNode, st[2]).labels)]_vars

\* 'q: x = <1>;' and then 's: x;' in the root: x still holds the cell
C19_Witness ==
    /\ pc = "done"
    /\ root # None
    /\ HasProp(heap, root, "x")
    /\ GetProp(heap, root, "x").labels = <<"q", "s">>
    /\ GetProp(heap, root, "x").value = <<0, 0, 0, 1>>

(***************************************************************************)
(* Properties of string literals and of text that is no token.             *)
(***************************************************************************)
\* The parser is in the body of a node
InNode == pc = "parse" /\ stack # <<>> /\ CurNode # None

\* The lexer states
LexerStates == {_DEFAULT, _EXPECT_PROPNODENAME, _EXPECT_BYTE}

\* C29: 'x = "str";' gives x one string chunk, a START-STRING marker at 0
\* and the bytes of str with a NUL after them, whatever str is, a
\* punctuation mark included; and the string literal leaves the lexer in the
\* state it was in
C29_LiteralIsString ==
    [][\A str \in LiteralContents :
          (InNode /\ ParseProp(<<>>, "x", AfterName(<<Plain("="), Quoted(str), Plain(";")>>))) =>
                 /\ pc' = "parse"
                 /\ GetProp(heap', CurNode, "x").value = Chars[str] \o <<0>>
                 /\ GetProp(heap', CurNode, "x").markers
                        = <<[pos |-> 0, type |-> _TYPE_STRING, ref |-> ""]>>
                 /\ \A state \in LexerStates :
                        next_token(<<Quoted(str)>>, 0, state).state = state
    ]_vars

\* 'x = "[" 12 ];' in a constructed tree: x is the byte array [12], opened
\* by the string literal
C29_Witness ==
    /\ pc = "done"
    /\ root # None
    /\ HasProp(heap, root, "x")
    /\ GetProp(heap, root, "x").value = <<18>>
    /\ GetProp(heap, root, "x").markers = <<[pos |-> 0, type |-> _TYPE_UINT8, ref |-> ""]>>
    /\ prop_statement(NewProperty("x"),
                      AfterName(<<Plain("="), Quoted("["), Plain("12"), Plain("]"), Plain(";")>>)).prop
           = GetProp(heap, root, "x")

\* The statement has text that is no token where the lexer comes to it
Unlexable(text) == \E i \in 1..Len(AfterName(text)) : AfterName(text)[i].id = _T_BAD

\* C25: where nothing matches, _next_token returns a _T_BAD token and leaves
\* its offset and its state as they are; and a statement in which the lexer
\* comes to such text ends the parse with DTError and without a tree
C25_BadTokenRaises ==
    [][\A text \in TextStatements :
          /\ \A i \in 0..Len(text), state \in LexerStates :
                 next_token(text, i, state).tok.id = _T_BAD =>
                     /\ next_token(text, i, state).i = i
                     /\ next_token(text, i, state).state = state
          /\ Unlexable(text) =>
                 \A name \in {"x", "y"} :
                     (InNode /\ ParseProp(<<>>, name, AfterName(text))) =>
                         /\ pc' = "error"
                         /\ err'.exc = "DTError"
                         /\ root' = None
    ]_vars

\* The parse was ended with ValueError by the statement
\* 'x = <(12 << (12 - 12 - 12) $ )>;': the lexer has returned _T_BAD for
\* the '$' when the shift by -12 is evaluated
C25_Witness ==
    /\ pc = "error"
    /\ err = [exc |-> "ValueError", from |-> "parse"]
    /\ Unlexable(Pcs(<<"=", "<", "(", "12", "<<", "(", "12", "-", "12", "-", "12", ")", "$", ")", ">", ";">>))

(***************************************************************************)
(* Properties of constant expressions.                                     *)
(***************************************************************************)
\* The level of a binary operator, the ternary operator being below all and
\* the unary operators above all
Precedence(op) ==
    CASE op = "||" -> 1
      [] op = "&&" -> 2
      [] op = "|" -> 3
      [] op = "^" -> 4
      [] op = "&" -> 5
      [] op \in {"==", "!="} -> 6
      [] op \in {"<", ">", "<=", ">="} -> 7
      [] op \in {"<<", ">>"} -> 8
      [] op \in {"+", "-"} -> 9
      [] op \in {"*", "/", "%"} -> 10

\* TRUE as 1 and FALSE as 0
Truth(b) == IF b THEN 1 ELSE 0

\* a op b on integers
Meaning(op, a, b) ==
    CASE op = "||" -> Truth(a # 0 \/ b # 0)
      [] op = "&&" -> Truth(a # 0 /\ b # 0)
      [] op = "|" -> BitOr(a, b)
      [] op = "^" -> BitXor(a, b)
      [] op = "&" -> BitAnd(a, b)
      [] op = "==" -> Truth(a = b)
      [] op = "<" -> Truth(a < b)
      [] op = "<<" -> a * Pow2(b)
      [] op = ">>" -> a \div Pow2(b)
      [] op = "+" -> a + b
      [] op = "-" -> a - b
      [] op = "*" -> a * b
      [] op = "%" -> a % b

\* op a
UnaryMeaning(op, a) ==
    CASE op = "-" -> 0 - a
      [] op = "~" -> (0 - a) - 1
      [] op = "!" -> Truth(a = 0)

\* 'a op1 b op2 c' grouped by the levels: op2 first only if it is of a
\* higher level than op1
Grouped(a, op1, b, op2, c) ==
    IF Precedence(op2) > Precedence(op1)
    THEN Meaning(op1, a, Meaning(op2, b, c))
    ELSE Meaning(op2, Meaning(op1, a, b), c)

\* The value of an expression of Exprs
ExprValue(e) ==
    IF e[1] = "binary" THEN Grouped(7, e[2], 3, e[3], 2)
    ELSE IF e[1] = "unary" THEN Meaning(e[3], UnaryMeaning(e[2], 7), 3)
    ELSE IF Meaning(e[2], 7, 3) # 0 THEN Meaning(e[3], 2, 1) ELSE 5

\* C21: a parenthesized constant expression evaluates to its value under
\* the precedence levels (ternary lowest, then ||, &&, |, ^, &, equality,
\* relational, shift, additive, multiplicative, unary), operators of one
\* level taken from the left, comparisons and logical operators giving 0 or
\* 1: the cell '<(e)>' becomes the four bytes of the value
C21_ExpressionValue ==
    [][InBody =>
          \A e \in Exprs :
              ParseProp(<<>>, "x", ExprCell(e)) =>
                  GetProp(heap', CurNode, "x").value = BigEndian(ExprValue(e), 4)]_vars

\* The root of a constructed tree with x = <(7 - 3 % 2)>, the cell 6
C21_Witness ==
    /\ pc = "done"
    /\ root # None
    /\ HasProp(heap, root, "x")
    /\ GetProp(heap, root, "x").value = <<0, 0, 0, 6>>
    /\ GetProp(heap, root, "x").value = BigEndian(ExprValue(<<"binary", "-", "%">>), 4)

(***************************************************************************)
(* Properties of the marker offsets.                                       *)
(***************************************************************************)
\* The markers of a property are at non-decreasing offsets within its value,
\* the first one at offset 0
Tiled(prop) ==
    prop.markers # <<>> =>
        /\ prop.markers[1].pos = 0
        /\ \A i \in 1..Len(prop.markers) : prop.markers[i].pos <= Len(prop.value)
        /\ \A i \in 1..(Len(prop.markers) - 1) :
              prop.markers[i].pos <= prop.markers[i + 1].pos

\* The bytes by which the path references among the first k markers of a
\* property grow when they are patched in the tree h: a path and its NUL each
RECURSIVE Expansion(_, _, _, _, _)
Expansion(h, r, a2n, markers, k) ==
    IF k = 0 THEN 0
    ELSE Expansion(h, r, a2n, markers, k - 1)
            + (IF markers[k].type = _REF_PATH
               THEN Len(path(h, _ref2node(h, r, a2n, markers[k].ref).node)) + 1
               ELSE 0)

\* C20: once the tree is constructed the markers of every property tile its
\* value (offsets non-decreasing, the first 0, none beyond the value), and
\* _fixup_props moves each marker from its offset in the unpatched value by
\* the expansion of the path references before it
C20_MarkerOffsets ==
    [][/\ pc' = "done" => \A prop \in AllProps' : Tiled(prop)
       /\ (pc = "fixup_props" /\ pc' = "register_aliases") =>
             \A n \in 1..Len(heap) : \A j \in 1..Len(heap[n].props) :
                 LET old == heap[n].props[j]
                     new == GetProp(heap', n, old.name)
                 IN /\ Len(new.markers) = Len(old.markers)
                    /\ \A k \in 1..Len(old.markers) :
                          new.markers[k].pos = old.markers[k].pos
                              + Expansion(heap', root, alias2node, old.markers, k - 1)]_vars

\* 'x = &l, <1>;' in the root of a constructed tree, l the label of /a: the
\* cell's marker has moved behind the path
C20_Witness ==
    /\ pc = "done"
    /\ root # None
    /\ HasProp(heap, root, "x")
    /\ GetProp(heap, root, "x").markers
          = <<Marker(0, _REF_PATH, "l"), Marker(3, _TYPE_UINT32, "")>>
    /\ GetProp(heap, root, "x").value = <<47, 97, 0, 0, 0, 0, 1>>

(***************************************************************************)
(* Properties of the phandle table.                                        *)
(***************************************************************************)
\* The nodes of the tree: those self.node_iter() yields
TreeNodes == IF root = None THEN {} ELSE {node_iter(heap, root)[i] : i \in 1..Len(node_iter(heap, root))}

\* The Node objects there are, in the tree or taken out of it by pruning
AllNodes == {n \in 1..Len(heap) : heap[n] # Freed}

\* The positive integers whose 4-byte encodings are the keys below U32Bytes(i)
KeysBelow(p2n, i) == \A j \in 1..(i - 1) : U32Bytes(j) \in DOMAIN p2n

\* C1: after a successful construction phandle2node is injective (no node is
\* the value of two phandle keys) and neither 0 nor 0xFFFFFFFF is a key
C1_PhandleTableInjective ==
    pc = "done" =>
        /\ \A p, q \in DOMAIN phandle2node :
               phandle2node[p] = phandle2node[q] => p = q
        /\ <<0, 0, 0, 0>> \notin DOMAIN phandle2node
        /\ <<255, 255, 255, 255>> \notin DOMAIN phandle2node

\* A construction that succeeded with an explicit phandle and an allocated one
C1_Witness ==
    /\ pc = "done"
    /\ <<0, 0, 0, 2>> \in DOMAIN phandle2node
    /\ <<0, 0, 0, 1>> \in DOMAIN phandle2node

\* The phandle reference markers of property prop, as indices into prop.markers
PhandleMarkers(prop) == {i \in 1..Len(prop.markers) : prop.markers[i].type = _REF_PHANDLE}

\* The node has a 'phandle' property that is a phandle reference
SelfReferential(h, n) ==
    HasProp(h, n, "phandle") /\ PhandleMarkers(GetProp(h, n, "phandle")) # {}

\* Node t has the 4-byte phandle property v, which the table maps to t
HasPhandle(h, p2n, t, v) ==
    /\ HasProp(h, t, "phandle")
    /\ GetProp(h, t, "phandle").value = v
    /\ Len(v) = 4
    /\ v \in DOMAIN p2n
    /\ p2n[v] = t

\* C7: the pass that patches references gives each node that a phandle
\* reference targets and that has no phandle the smallest positive integer
\* that is not a key of the table (never 0 or 0xFFFFFFFF), maps it to the node,
\* adds a 4-byte 'phandle' property with it, and puts it in place of the
\* placeholder bytes of every reference to the node
C7_AllocatedPhandles ==
    [][(pc = "fixup_props" /\ pc' = "register_aliases") =>
          /\ \A k \in DOMAIN phandle2node' \ DOMAIN phandle2node :
                 /\ \E i \in 1..(Cardinality(DOMAIN phandle2node') + 1) :
                        k = U32Bytes(i) /\ KeysBelow(phandle2node', i)
                 /\ k \notin {<<0, 0, 0, 0>>, <<255, 255, 255, 255>>}
                 /\ HasPhandle(heap', phandle2node', phandle2node'[k], k)
          /\ \A n \in TreeNodes :
                 \A j \in 1..Len(heap'[n].props) :
                     \A i \in PhandleMarkers(heap'[n].props[j]) :
                         LET prop == heap'[n].props[j]
                             t == _ref2node(heap, root, alias2node, prop.markers[i].ref).node
                             v == Slice(prop.value, prop.markers[i].pos,
                                        prop.markers[i].pos + 4)
                         IN /\ HasPhandle(heap', phandle2node', t, v)
                            /\ ~HasProp(heap, t, "phandle") =>
                                   v \in DOMAIN phandle2node' \ DOMAIN phandle2node
    ]_vars

\* A node without a phandle was referenced next to a node with the explicit
\* phandle 2: it got the phandle 1
C7_Witness ==
    /\ pc = "register_aliases"
    /\ DOMAIN phandle2node = {<<0, 0, 0, 1>>, <<0, 0, 0, 2>>}
    /\ ~heap[phandle2node[<<0, 0, 0, 2>>]].is_referenced
    /\ \E n \in TreeNodes : \E j \in 1..Len(heap[n].props) :
           /\ PhandleMarkers(heap[n].props[j]) # {}
           /\ heap[n].props[j].name = "x"
           /\ heap[n].props[j].value = <<0, 0, 0, 1>>

\* C8: a node whose phandle property is a phandle reference to itself ends
\* construction with a phandle p that differs from the phandle of every other
\* node, with phandle2node[p] the node and p the property's value
C8_SelfReferentialPhandle ==
    pc = "done" =>
        \A n \in TreeNodes :
            SelfReferential(heap, n) =>
                LET p == GetProp(heap, n, "phandle").value
                IN /\ HasPhandle(heap, phandle2node, n, p)
                   /\ p \notin {<<0, 0, 0, 0>>, <<255, 255, 255, 255>>}
                   /\ \A m \in AllNodes \ {n} :
                          HasProp(heap, m, "phandle") =>
                              GetProp(heap, m, "phandle").value # p

\* A self-referential phandle next to an explicit phandle 2
C8_Witness ==
    /\ pc = "done"
    /\ \E n, m \in TreeNodes :
           /\ SelfReferential(heap, n)
           /\ m # n
           /\ ~heap[m].is_referenced
           /\ HasProp(heap, m, "phandle")
           /\ GetProp(heap, m, "phandle").value = <<0, 0, 0, 2>>

\* A 'phandle' property that _register_phandles must refuse: not 4 bytes
\* long, or 0 or 0xFFFFFFFF without being a reference, or the explicit phandle
\* of another node too, or a phandle reference to a different node
BadPhandle(h, r, a2n, n) ==
    /\ HasProp(h, n, "phandle")
    /\ LET ph == GetProp(h, n, "phandle")
       IN \/ Len(ph.value) # 4
          \/ /\ PhandleMarkers(ph) = {}
             /\ ph.value \in {<<0, 0, 0, 0>>, <<255, 255, 255, 255>>}
          \/ /\ PhandleMarkers(ph) = {}
             /\ \E m \in {node_iter(h, r)[i] : i \in 1..Len(node_iter(h, r))} \ {n} :
                    /\ HasProp(h, m, "phandle")
                    /\ PhandleMarkers(GetProp(h, m, "phandle")) = {}
                    /\ GetProp(h, m, "phandle").value = ph.value
          \/ \E i \in PhandleMarkers(ph) :
                 _ref2node(h, r, a2n, ph.markers[i].ref).node # n

\* C9: construction raises DTError, and returns no tree, if a node of the
\* parsed tree has a bad 'phandle' property
C9_BadPhandleRaises ==
    [][(pc = "register_phandles" /\ \E n \in TreeNodes : BadPhandle(heap, root, alias2node, n))
          => (pc' = "error" /\ err'.exc = "DTError" /\ root' = None)]_vars

\* _register_phandles has raised DTError
C9_Witness ==
    pc = "error" /\ err = [exc |-> "DTError", from |-> "register_phandles"]

\* The node has a 'phandle' property written in the source as a value, not
\* as a phandle reference
ExplicitPhandle(h, n) ==
    HasProp(h, n, "phandle") /\ PhandleMarkers(GetProp(h, n, "phandle")) = {}

\* C22: when the pass that patches the references starts, the explicit
\* phandle of every node of the tree is a key of the table, mapped to the
\* node; and no phandle the pass allocates equals the explicit phandle of any
\* node of the tree, which the pass leaves as it was
C22_AllocatedNotExplicit ==
    [][/\ pc = "fixup_props" =>
              \A n \in TreeNodes :
                  ExplicitPhandle(heap, n) =>
                      HasPhandle(heap, phandle2node, n, GetProp(heap, n, "phandle").value)
       /\ (pc = "fixup_props" /\ pc' = "register_aliases") =>
              \A k \in DOMAIN phandle2node' \ DOMAIN phandle2node :
                  \A n \in TreeNodes :
                      ExplicitPhandle(heap, n) =>
                          /\ GetProp(heap, n, "phandle").value # k
                          /\ GetProp(heap', n, "phandle") = GetProp(heap, n, "phandle")
                          /\ phandle2node'[k] # n
    ]_vars

\* A node without a phandle was referenced in a tree where a node that
\* comes after it has the explicit phandle 1: it got the phandle 2
C22_Witness ==
    /\ pc = "register_aliases"
    /\ DOMAIN phandle2node = {<<0, 0, 0, 1>>, <<0, 0, 0, 2>>}
    /\ heap[phandle2node[<<0, 0, 0, 2>>]].is_referenced
    /\ ~heap[phandle2node[<<0, 0, 0, 1>>]].is_referenced
    /\ \E i, j \in 1..Len(node_iter(heap, root)) :
           /\ i < j
           /\ node_iter(heap, root)[i] = phandle2node[<<0, 0, 0, 2>>]
           /\ node_iter(heap, root)[j] = phandle2node[<<0, 0, 0, 1>>]

(***************************************************************************)
(* Properties of references, aliases and pruning.                          *)
(***************************************************************************)
\* The path and phandle reference markers of property prop, as indices
RefMarkers(prop) ==
    {i \in 1..Len(prop.markers) : prop.markers[i].type \in {_REF_PATH, _REF_PHANDLE}}

\* The bytes at marker m of prop are the path of node t and a NUL (path
\* reference) or the phandle that the table maps to t (phandle reference)
PatchedWith(h, p2n, prop, m, t) ==
    IF m.type = _REF_PATH
    THEN Slice(prop.value, m.pos, m.pos + Len(path(h, t)) + 1) = path(h, t) \o <<0>>
    ELSE HasPhandle(h, p2n, t, Slice(prop.value, m.pos, m.pos + 4))

\* C3: after a successful construction, the node that each path or phandle
\* reference marker of each property of the final tree refers to is a node of
\* the final tree, and the bytes at the marker are its path and a NUL, or its
\* phandle
C3_ReferencesResolve ==
    pc = "done" =>
        \A n \in TreeNodes : \A j \in 1..Len(heap[n].props) :
            \A i \in RefMarkers(heap[n].props[j]) :
                LET prop == heap[n].props[j]
                    t == _ref2node(heap, root, alias2node, prop.markers[i].ref)
                IN /\ t.exc = "none"
                   /\ t.node \in TreeNodes
                   /\ PatchedWith(heap, phandle2node, prop, prop.markers[i], t.node)

\* C4: after a successful construction, get_node(a) for every alias a returns
\* the node that the path stored in property a of /aliases leads to in the
\* final tree, and that node is in the final tree
C4_AliasesSound ==
    pc = "done" =>
        \A a \in DOMAIN alias2node :
            /\ Child(heap, root, "aliases") # None
            /\ HasProp(heap, Child(heap, root, "aliases"), a)
            /\ LET named == get_node(heap, root, alias2node, Chars[a])
                   stored == to_path(heap, root, alias2node,
                                     GetProp(heap, Child(heap, root, "aliases"), a))
               IN /\ named.exc = "none"
                  /\ stored.exc = "none"
                  /\ named.node = stored.node
                  /\ named.node \in TreeNodes

\* C5: after a successful construction no node reachable from the root has
\* omit_if_no_ref set and is_referenced false, and every node that has (nested
\* in another such node or not) is out of its parent's child map
C5_UnreferencedPruned ==
    pc = "done" =>
        /\ \A n \in TreeNodes : ~(heap[n].omit_if_no_ref /\ ~heap[n].is_referenced)
        /\ \A n \in AllNodes :
               (heap[n].omit_if_no_ref /\ ~heap[n].is_referenced) =>
                   /\ heap[n].parent # None
                   /\ ~In(n, heap[heap[n].parent].nodes)

\* A flagged node with a flagged node nested in it was pruned, both unreferenced
C5_Witness ==
    /\ pc = "done"
    /\ \E n, m \in AllNodes :
           /\ heap[m].parent = n
           /\ heap[n].omit_if_no_ref /\ ~heap[n].is_referenced
           /\ heap[m].omit_if_no_ref /\ ~heap[m].is_referenced

\* The node and its descendants
Subtree(n) == {node_iter(heap, n)[i] : i \in 1..Len(node_iter(heap, n))}

\* A property of node m holds a path or phandle reference to node n
RefersTo(m, n) ==
    \E j \in 1..Len(heap[m].props) :
        \E i \in RefMarkers(heap[m].props[j]) :
            _ref2node(heap, root, alias2node, heap[m].props[j].markers[i].ref)
                = Ret(n)

\* C30: after a successful construction every node of the tree that is
\* flagged /omit-if-no-ref/ is referenced by a property of a node of the
\* tree that is neither the flagged node nor one of its descendants
C30_KeptByOutsideReference ==
    pc = "done" =>
        \A n \in TreeNodes :
            heap[n].omit_if_no_ref =>
                \E m \in TreeNodes \ Subtree(n) : RefersTo(m, n)

\* A flagged node that only its own property refers to is in the tree of a
\* successful construction
C30_Witness ==
    /\ pc = "done"
    /\ \E n \in TreeNodes :
           /\ heap[n].omit_if_no_ref
           /\ RefersTo(n, n)
           /\ \A m \in TreeNodes \ {n} : ~RefersTo(m, n)

(***************************************************************************)
(* Properties of /delete-node/ and /delete-property/.                      *)
(***************************************************************************)
\* The nodes a step takes out of the tree, and those it creates
Gone == AllNodes \ AllNodes'
Created == AllNodes' \ AllNodes

\* Whether some node of the tree after the step has the label
StillLabels(label) == \E n \in TreeNodes' : In(label, heap'[n].labels)

\* A step of the parser that deletes nodes deletes whole subtrees of the
\* tree; afterwards none of the deleted nodes is in node_iter, get_node
\* raises DTError for the path each of them had, and a reference by one of
\* its labels raises DTError unless a node that is left has the label too
DeletedUnreachable ==
    (pc = "parse" /\ pc' = "parse" /\ Gone # {}) =>
        \A d \in Gone :
            /\ d \in TreeNodes
            /\ d \notin TreeNodes'
            /\ Subtree(d) \subseteq Gone
            /\ get_node(heap', root', alias2node', path(heap, d)) = Raise("DTError")
            /\ \A i \in 1..Len(heap[d].labels) :
                   LET res == _ref2node(heap', root', alias2node', heap[d].labels[i])
                   IN /\ res.node \notin Gone
                      /\ ~StillLabels(heap[d].labels[i]) => res = Raise("DTError")

\* A step of the parser that creates a node, the root's apart, enters it,
\* has appended it to its parent's children and has given it no property, no
\* child and no label but those of a node statement with its name
DefinedFresh ==
    (pc = "parse" /\ stack # <<>> /\ Created # {}) =>
        \A n \in Created :
            /\ Created = {n}
            /\ stack' = Append(stack, [node |-> n, label |-> ""])
            /\ heap'[n].parent = CurNode
            /\ heap'[CurNode].nodes = Append(heap[CurNode].nodes, n)
            /\ heap'[n].props = <<>>
            /\ heap'[n].nodes = <<>>
            /\ \E st \in DeleteInputs.nodes :
                   /\ st[2] = heap'[n].name
                   /\ heap'[n].labels = LabelsOf(st[1])

\* Where /delete-node/ and /delete-property/ name a child or a property
\* that the node being parsed does not have, the statement changes nothing
AbsentNamesIgnored ==
    (pc = "parse" /\ stack # <<>> /\ CurNode # None) =>
        /\ \A name \in DeleteInputs.delnodes :
               Child(heap, CurNode, name) = None =>
                   /\ ENABLED (ParseDelNode(name) /\ UNCHANGED vars)
                   /\ ~ENABLED (ParseDelNode(name) /\ ~UNCHANGED vars)
        /\ \A name \in DeleteInputs.delprops :
               ~HasProp(heap, CurNode, name) =>
                   /\ ENABLED (ParseDelProp(name) /\ UNCHANGED vars)
                   /\ ~ENABLED (ParseDelProp(name) /\ ~UNCHANGED vars)

\* C26: after '/delete-node/ name;' or '/delete-node/ &ref;' the node and
\* its subtree are reachable neither by get_node nor by node_iter nor by a
\* label reference; a later definition of the name creates a new node, last
\* among its siblings, without the properties, children and labels of the
\* deleted one; deleting a name that is absent changes nothing and is no error
C26_DeleteNode ==
    /\ []AbsentNamesIgnored
    /\ [][DeletedUnreachable /\ DefinedFresh]_vars

\* The node a with the label l and a property was deleted after its sibling
\* c was defined, and was defined again: it is the last child of the root and
\* has neither label nor property, and no node has the label l
C26_Witness ==
    /\ pc = "parse"
    /\ root # None
    /\ Len(heap[root].nodes) = 2
    /\ heap[heap[root].nodes[1]].name = "c"
    /\ heap[heap[root].nodes[2]].name = "a"
    /\ heap[root].nodes[2] < heap[root].nodes[1]
    /\ heap[heap[root].nodes[2]].labels = <<>>
    /\ heap[heap[root].nodes[2]].props = <<>>
    /\ _ref2node(heap, root, alias2node, "l") = Raise("DTError")
    /\ stack = <<[node |-> root, label |-> ""], [node |-> heap[root].nodes[2], label |-> ""]>>

(***************************************************************************)
(* Properties of labels.                                                   *)
(***************************************************************************)
\* The targets in the tree of heap h under root r that carry the label: nodes,
\* properties, and (property, offset) positions
LabelTargets(h, r, label) ==
    LET nodes == {node_iter(h, r)[i] : i \in 1..Len(node_iter(h, r))}
    IN {<<"node", n, "", 0>> : n \in {k \in nodes : In(label, h[k].labels)}}
       \cup UNION {{<<"prop", n, h[n].props[j].name, 0>> :
                        j \in {k \in 1..Len(h[n].props) : In(label, h[n].props[k].labels)}} :
                   n \in nodes}
       \cup UNION {UNION {{<<"offset", n, h[n].props[j].name, h[n].props[j].offset_labels[k][2]>> :
                              k \in {q \in 1..Len(h[n].props[j].offset_labels) :
                                        h[n].props[j].offset_labels[q][1] = label}} :
                          j \in 1..Len(h[n].props)} :
                   n \in nodes}

\* The labels the model's files use
LabelNames == {"l", "m"}

\* C2: the last step of construction raises DTError if a label is on two
\* distinct targets of the tree (nodes, properties, offsets in values), and
\* otherwise succeeds, with each label a key of at most one of label2node,
\* label2prop and label2prop_offset, mapped to its target
C2_LabelsDisjoint ==
    [][pc = "register_labels" =>
          IF \E label \in LabelNames : Cardinality(LabelTargets(heap, root, label)) > 1
          THEN pc' = "error" /\ err'.exc = "DTError"
          ELSE /\ pc' = "done"
               /\ DOMAIN label2node' \cap DOMAIN label2prop' = {}
               /\ DOMAIN label2node' \cap DOMAIN label2prop_offset' = {}
               /\ DOMAIN label2prop' \cap DOMAIN label2prop_offset' = {}
               /\ \A label \in LabelNames :
                      LabelTargets(heap, root, label) =
                          {<<t.kind, t.node, t.prop, t.offset>> :
                              t \in {label2node'[k] : k \in DOMAIN label2node' \cap {label}}
                                    \cup {label2prop'[k] : k \in DOMAIN label2prop' \cap {label}}
                                    \cup {label2prop_offset'[k] :
                                             k \in DOMAIN label2prop_offset' \cap {label}}}
    ]_vars

\* A construction that succeeded with one label on a node and another twice
\* at one offset of a value
C2_Witness ==
    /\ pc = "done"
    /\ DOMAIN label2node # {}
    /\ \E label \in DOMAIN label2prop_offset :
           LET t == label2prop_offset[label]
               markers == GetProp(heap, t.node, t.prop).markers
           IN Cardinality({i \in 1..Len(markers) :
                            markers[i].type = _REF_LABEL /\ markers[i].ref = label}) = 2

====
